---- MODULE Spec2Model ----
(***************************************************************************)
(* Verification model of the guitar chord explorer's music-theory engine.  *)
(*                                                                         *)
(* The first part models ChordIdentifierService                            *)
(* (chord-identifier.service.ts) and its caller ChordIdentifierComponent,  *)
(* which re-runs identifyChords on every change of the selected notes.     *)
(* The second part models MusicTheoryService (scales and their diatonic    *)
(* chords) and the position functions of FretboardService, driven by the   *)
(* root and scale-kind changes of AppComponent.                            *)
(*                                                                         *)
(* Representation.                                                         *)
(*  - A Note is a record [pitch, accidental, octave]; a note whose octave  *)
(*    is undefined, such as the pitch classes the services build           *)
(*    themselves, has no octave field: [pitch, accidental].                *)
(*  - An optional value (a scaleDegree, the chord of a positions call) is  *)
(*    a sequence of length 0 or 1.                                         *)
(*  - The strings the code takes apart or puts together (pitch,            *)
(*    accidental, note names) are sequences of characters: the pitch of    *)
(*    C# is <<"C">>, its accidental <<"#">>, its name <<"C", "#">>; the    *)
(*    empty string is <<>>.                                                *)
(*  - A confidence is kept exactly, in sixtieths: 1.0 is 60, 0.5 is 30 and *)
(*    the 0.15 penalty is 9.  The code computes in IEEE doubles; for every *)
(*    (matched, chord size, extra) combination of up to 12 input notes the *)
(*    double result compares with 0, 0.5 and 1 exactly as the rational     *)
(*    does, and any two results above 0.5 compare with each other exactly  *)
(*    as the rationals do.                                                 *)
(***************************************************************************)
EXTENDS Integers, Sequences, FiniteSets, TLC

VARIABLES
    selectedNotes,   \* notes of ChordIdentifierComponent.selectedPositions, in order
    chordMatches,    \* ChordIdentifierComponent.chordMatches: last identifyChords result
    outcome,         \* how the last identifyChords call ended: "returned" or "raised"
    currentScale,    \* AppComponent.currentScale: the last getScale result
    positions,       \* the last result of a FretboardService positions call
    request,         \* the arguments of that call
    modelCall,       \* a direct call of the note model: the function and its arguments
    modelResult,     \* how that call ended
    fretboard,       \* the FretboardComponent of the explorer: its fields
    selectedChord,   \* AppComponent.selectedChord, the fretboard's chord input; <<>> for null
    selectedFretboardPositions,  \* AppComponent.selectedFretboardPositions
    timers,          \* setTimeout callbacks scheduled and not yet run
    emitted          \* what the last handler emitted on selectionChange, <<>> if nothing

vars ==
    <<selectedNotes, chordMatches, outcome, currentScale, positions, request,
      modelCall, modelResult,
      fretboard, selectedChord, selectedFretboardPositions, timers, emitted>>

identifierVars == <<selectedNotes, chordMatches, outcome>>

explorerVars == <<currentScale, positions, request>>

noteModelVars == <<modelCall, modelResult>>

fretboardVars == <<fretboard, selectedChord, selectedFretboardPositions, timers, emitted>>

\* Largest number of selected notes explored.
MaxNotes == 3

\* Highest fret from which a note is selected.
MaxFret == 2

\* Highest first fret of a requested fret window.
MaxFretStart == 2

\* Longest string handed to the pitch parser.
MaxStringLen == 4

\* Clicks and double-clicks fall on strings 1..MaxClickString.
MaxClickString == 1

\* Most setTimeout callbacks pending at once.
MaxPendingEmits == 1

----------------------------------------------------------------------------
(* Helpers over sequences *)

Range(s) == {s[i] : i \in 1..Len(s)}

Max(a, b) == IF a >= b THEN a ELSE b

\* Array.prototype.indexOf, 0-based, -1 when absent.
IndexOf(s, x) ==
    IF \E i \in 1..Len(s) : s[i] = x
    THEN (CHOOSE i \in 1..Len(s) : s[i] = x /\ \A j \in 1..(i - 1) : s[j] # x) - 1
    ELSE -1

----------------------------------------------------------------------------
(* Tables of ChordIdentifierService *)

CHROMATIC_SCALE ==
    << <<"C">>, <<"C", "#">>, <<"D">>, <<"D", "#">>, <<"E">>, <<"F">>,
       <<"F", "#">>, <<"G">>, <<"G", "#">>, <<"A">>, <<"A", "#">>, <<"B">> >>

\* Object.entries(CHORD_FORMULAS) iterates in insertion order.
QualityOrder ==
    << "major", "minor", "diminished", "augmented", "major7", "minor7",
       "dominant7", "diminished7", "half-diminished7", "sus2", "sus4",
       "add9", "maj9", "min9" >>

CHORD_FORMULAS ==
    [q \in Range(QualityOrder) |->
        CASE q = "major"            -> <<0, 4, 7>>
          [] q = "minor"            -> <<0, 3, 7>>
          [] q = "diminished"       -> <<0, 3, 6>>
          [] q = "augmented"        -> <<0, 4, 8>>
          [] q = "major7"           -> <<0, 4, 7, 11>>
          [] q = "minor7"           -> <<0, 3, 7, 10>>
          [] q = "dominant7"        -> <<0, 4, 7, 10>>
          [] q = "diminished7"      -> <<0, 3, 6, 9>>
          [] q = "half-diminished7" -> <<0, 3, 6, 10>>
          [] q = "sus2"             -> <<0, 2, 7>>
          [] q = "sus4"             -> <<0, 5, 7>>
          [] q = "add9"             -> <<0, 4, 7, 14>>
          [] q = "maj9"             -> <<0, 4, 7, 11, 14>>
          [] q = "min9"             -> <<0, 3, 7, 10, 14>>]

----------------------------------------------------------------------------
(* Notes *)

\* The template string `${note.pitch}${note.accidental}`.
NoteName(note) == note.pitch \o note.accidental

getNoteIndex(note) ==
    LET index == IndexOf(CHROMATIC_SCALE, NoteName(note))
    IN  IF index >= 0 THEN index ELSE 0

indexToNote(index) ==
    LET noteName == CHROMATIC_SCALE[index + 1]
    IN  IF Len(noteName) = 1
        THEN [pitch |-> noteName, accidental |-> <<>>]
        ELSE [pitch |-> <<noteName[1]>>, accidental |-> <<noteName[2]>>]

notesEqual(note1, note2) ==
    note1.pitch = note2.pitch /\ note1.accidental = note2.accidental

\* Spellings outside CHROMATIC_SCALE that a caller of the service can pass.
OtherSpellings == {<<"B", "b">>, <<"D", "b">>, <<"C", "b">>, <<"E", "#">>}

\* The octave-less pitch classes the service can meet as a candidate root.
PitchClasses ==
    {indexToNote(i) : i \in 0..11}
        \cup {[pitch |-> <<letter>>, accidental |-> accidental] :
                  letter \in {"C", "D", "E", "F", "G", "A", "B"},
                  accidental \in {<<>>, <<"#">>, <<"b">>}}

----------------------------------------------------------------------------
(* FretboardService: the note at a string and fret *)

STANDARD_TUNING ==
    << [pitch |-> <<"E">>, accidental |-> <<>>, octave |-> 4],
       [pitch |-> <<"B">>, accidental |-> <<>>, octave |-> 3],
       [pitch |-> <<"G">>, accidental |-> <<>>, octave |-> 3],
       [pitch |-> <<"D">>, accidental |-> <<>>, octave |-> 3],
       [pitch |-> <<"A">>, accidental |-> <<>>, octave |-> 2],
       [pitch |-> <<"E">>, accidental |-> <<>>, octave |-> 2] >>

CHROMATIC_NOTES ==
    << <<"C">>, <<"C", "#">>, <<"D">>, <<"D", "#">>, <<"E">>, <<"F">>,
       <<"F", "#">>, <<"G">>, <<"G", "#">>, <<"A">>, <<"A", "#">>, <<"B">> >>

\* String.prototype.includes for one character.
includes(str, ch) == \E i \in 1..Len(str) : str[i] = ch

\* str.replace(/#|b/g, ''): every accidental character removed.
stripAccidentals(str) == SelectSeq(str, LAMBDA ch : ch # "#" /\ ch # "b")

\* str.replace('#', ''): the first '#' removed.
removeFirstSharp(str) ==
    IF includes(str, "#")
    THEN LET i == CHOOSE i \in 1..Len(str) : str[i] = "#" /\ \A j \in 1..(i - 1) : str[j] # "#"
         IN  SubSeq(str, 1, i - 1) \o SubSeq(str, i + 1, Len(str))
    ELSE str

fretboardGetNoteIndex(note) ==
    LET noteName == IF includes(note.pitch, "#") \/ includes(note.pitch, "b")
                    THEN note.pitch
                    ELSE note.pitch \o note.accidental
        index     == IndexOf(CHROMATIC_NOTES, noteName)
        basePitch == stripAccidentals(note.pitch)
        baseIndex == IF IndexOf(CHROMATIC_NOTES, basePitch) = -1
                     THEN IndexOf(CHROMATIC_NOTES, basePitch \o <<"#">>)
                     ELSE IndexOf(CHROMATIC_NOTES, basePitch)
    IN  IF index # -1 THEN index
        ELSE IF baseIndex # -1
             THEN IF includes(note.pitch, "#") \/ note.accidental = <<"#">>
                  THEN (baseIndex + 1) % 12
                  ELSE IF includes(note.pitch, "b") \/ note.accidental = <<"b">>
                       THEN (baseIndex - 1 + 12) % 12
                       ELSE baseIndex
             ELSE 0

\* Variant: the open string's index is left out.
calculateOctave_fromFretOnly(openOctave, openIndex, fret) ==
    openOctave + (fret \div 12)

calculateOctave(openOctave, openIndex, fret) ==
    LET totalSemitones  == openIndex + fret
        octaveIncrease == totalSemitones \div 12
    IN  openOctave + octaveIncrease

getNoteAtFret(openString, fret) ==
    LET openStringIndex == fretboardGetNoteIndex(openString)
        noteIndex       == (openStringIndex + fret) % 12
        pitch           == CHROMATIC_NOTES[noteIndex + 1]
    IN  [pitch      |-> removeFirstSharp(pitch),
         accidental |-> IF includes(pitch, "#") THEN <<"#">> ELSE <<>>,
         octave     |-> calculateOctave(openString.octave, openStringIndex, fret)]

getNoteAtPosition(stringNum, fret) == getNoteAtFret(STANDARD_TUNING[stringNum], fret)

----------------------------------------------------------------------------
(* Key membership of a candidate chord *)

\* intervals.map(interval => indexToNote((rootIndex + interval) % 12))
RECURSIVE mapIntervals(_, _, _)
mapIntervals(rootIndex, intervals, k) ==
    IF k > Len(intervals) THEN <<>>
    ELSE <<indexToNote((rootIndex + intervals[k]) % 12)>>
             \o mapIntervals(rootIndex, intervals, k + 1)

getMajorScaleNotes(root) ==
    mapIntervals(getNoteIndex(root), <<0, 2, 4, 5, 7, 9, 11>>, 1)

getMinorScaleNotes(root) ==
    mapIntervals(getNoteIndex(root), <<0, 2, 3, 5, 7, 8, 10>>, 1)

\* Variant: a root that is not in the scale is given position 0.
getChordPositionInScale_clamped(chordRoot, scaleNotes) ==
    IF \E k \in 1..Len(scaleNotes) : notesEqual(scaleNotes[k], chordRoot)
    THEN (CHOOSE k \in 1..Len(scaleNotes) : notesEqual(scaleNotes[k], chordRoot)) - 1
    ELSE 0

\* Array.prototype.findIndex, 0-based, -1 when no scale note equals the root.
getChordPositionInScale(chordRoot, scaleNotes) ==
    IF \E k \in 1..Len(scaleNotes) : notesEqual(scaleNotes[k], chordRoot)
    THEN (CHOOSE k \in 1..Len(scaleNotes) :
              /\ notesEqual(scaleNotes[k], chordRoot)
              /\ \A j \in 1..(k - 1) : ~notesEqual(scaleNotes[j], chordRoot)) - 1
    ELSE -1

\* String.prototype.toLowerCase on the seven numerals.
toLowerCase(numeral) ==
    CASE numeral = "I"   -> "i"
      [] numeral = "II"  -> "ii"
      [] numeral = "III" -> "iii"
      [] numeral = "IV"  -> "iv"
      [] numeral = "V"   -> "v"
      [] numeral = "VI"  -> "vi"
      [] numeral = "VII" -> "vii"

\* Variant: diminished qualities get the lower-case numeral without the sign.
getRomanNumeralForPosition_noDegreeSign(position, quality, scaleType) ==
    LET numerals == <<"I", "II", "III", "IV", "V", "VI", "VII">>
        numeral  == numerals[position + 1]
    IN  IF quality \in {"minor", "minor7", "half-diminished7", "diminished", "diminished7"}
        THEN toLowerCase(numeral)
        ELSE numeral

getRomanNumeralForPosition(position, quality, scaleType) ==
    LET numerals == <<"I", "II", "III", "IV", "V", "VI", "VII">>
        numeral  == numerals[position + 1]
    IN  IF quality = "minor" \/ quality = "minor7" \/ quality = "half-diminished7"
        THEN toLowerCase(numeral)
        ELSE IF quality = "diminished" \/ quality = "diminished7"
             THEN toLowerCase(numeral) \o "°"
             ELSE numeral

\* One of the two loops of findKeysForChord, from key root index i upwards.
RECURSIVE checkKeys(_, _, _)
checkKeys(chord, i, scaleType) ==
    IF i >= 12 THEN <<>>
    ELSE LET keyRoot       == indexToNote(i)
             scaleNotes    == IF scaleType = "Major" THEN getMajorScaleNotes(keyRoot)
                                                     ELSE getMinorScaleNotes(keyRoot)
             chordPosition == getChordPositionInScale(chord.root, scaleNotes)
             entry ==
                 IF chordPosition >= 0
                 THEN << [key          |-> keyRoot,
                          romanNumeral |-> getRomanNumeralForPosition(
                                               chordPosition, chord.quality,
                                               IF scaleType = "Major" THEN "major" ELSE "minor"),
                          scaleType    |-> scaleType] >>
                 ELSE <<>>
         IN  entry \o checkKeys(chord, i + 1, scaleType)

findKeysForChord(chord) ==
    checkKeys(chord, 0, "Major") \o checkKeys(chord, 0, "Minor")

----------------------------------------------------------------------------
(* Matching one (root, quality) candidate *)

qualityMap ==
    [q \in Range(QualityOrder) |->
        CASE q = "major"            -> <<>>
          [] q = "minor"            -> <<"m">>
          [] q = "diminished"       -> <<"d", "i", "m">>
          [] q = "augmented"        -> <<"a", "u", "g">>
          [] q = "major7"           -> <<"m", "a", "j", "7">>
          [] q = "minor7"           -> <<"m", "7">>
          [] q = "dominant7"        -> <<"7">>
          [] q = "diminished7"      -> <<"d", "i", "m", "7">>
          [] q = "half-diminished7" -> <<"m", "7", "b", "5">>   \* the code has a flat sign for b
          [] q = "sus2"             -> <<"s", "u", "s", "2">>
          [] q = "sus4"             -> <<"s", "u", "s", "4">>
          [] q = "add9"             -> <<"a", "d", "d", "9">>
          [] q = "maj9"             -> <<"m", "a", "j", "9">>
          [] q = "min9"             -> <<"m", "9">>]

\* The root's name followed by the quality suffix.
getChordDisplayName(root, quality) == NoteName(root) \o qualityMap[quality]

buildChordNotes(root, formula) == mapIntervals(getNoteIndex(root), formula, 1)

\* buildChordNotes tabulated once per root and formula.
chordNotesTable ==
    [root \in PitchClasses, formula \in {CHORD_FORMULAS[q] : q \in Range(QualityOrder)} |->
        buildChordNotes(root, formula)]

\* findKeysForChord reads the chord's root and quality only; its result is
\* tabulated once per (root, quality).
keysTable ==
    [root \in PitchClasses, quality \in Range(QualityOrder) |->
        findKeysForChord([root |-> root, quality |-> quality])]

matchedNotesOf(chordNotes, selected) ==
    SelectSeq(chordNotes,
              LAMBDA chordNote : \E i \in 1..Len(selected) : notesEqual(selected[i], chordNote))

\* Variant: no chord note is ever missing.
missingNotesOf_none(chordNotes, selected) == <<>>

missingNotesOf(chordNotes, selected) ==
    SelectSeq(chordNotes,
              LAMBDA chordNote : ~\E i \in 1..Len(selected) : notesEqual(selected[i], chordNote))

extraNotesOf(chordNotes, selected) ==
    SelectSeq(selected,
              LAMBDA selectedNote : ~\E k \in 1..Len(chordNotes) : notesEqual(selectedNote, chordNotes[k]))

\* Variant: extra notes cost nothing.
confidenceOf_noPenalty(matchedCount, chordSize, extraCount) ==
    Max(0, (60 * matchedCount) \div chordSize)

\* Variant: one penalty however many extra notes there are.
confidenceOf_flatPenalty(matchedCount, chordSize, extraCount) ==
    Max(0, (60 * matchedCount) \div chordSize - (IF extraCount > 0 THEN 9 ELSE 0))

\* Math.max(0, matched / size - extra * 0.15), in sixtieths.
confidenceOf(matchedCount, chordSize, extraCount) ==
    LET matchRatio       == (60 * matchedCount) \div chordSize
        penaltyForExtras == extraCount * 9
    IN  Max(0, matchRatio - penaltyForExtras)

\* The empty sequence stands for null, a one-element sequence for a ChordMatch.
matchChord(root, quality, formula, selected) ==
    LET chordNotes   == chordNotesTable[root, formula]
        matchedNotes == matchedNotesOf(chordNotes, selected)
        missingNotes == missingNotesOf(chordNotes, selected)
        extraNotes   == extraNotesOf(chordNotes, selected)
        confidence   == confidenceOf(Len(matchedNotes), Len(chordNotes), Len(extraNotes))
        chord        == [root         |-> root,
                         quality      |-> quality,
                         notes        |-> chordNotes,
                         romanNumeral |-> "",
                         displayName  |-> getChordDisplayName(root, quality)]
    IN  IF confidence = 0 THEN <<>>
        ELSE << [chord         |-> chord,
                 confidence    |-> confidence,
                 missingNotes  |-> missingNotes,
                 extraNotes    |-> extraNotes,
                 appearsInKeys |-> keysTable[chord.root, chord.quality]] >>

----------------------------------------------------------------------------
(* identifyChords *)

RECURSIVE uniqueFrom(_, _, _)
uniqueFrom(notes, i, unique) ==
    IF i > Len(notes) THEN unique
    ELSE LET key == NoteName(notes[i])
         IN  IF \E k \in 1..Len(unique) : NoteName(unique[k]) = key
             THEN uniqueFrom(notes, i + 1, unique)
             ELSE uniqueFrom(notes, i + 1,
                      Append(unique, [pitch |-> notes[i].pitch,
                                      accidental |-> notes[i].accidental]))

\* Variant: every input note is kept, repeated pitch classes included.
getUniqueNotes_noDedup(notes) ==
    [i \in 1..Len(notes) |-> [pitch |-> notes[i].pitch, accidental |-> notes[i].accidental]]

getUniqueNotes(notes) == uniqueFrom(notes, 1, <<>>)

\* The threshold test of the loop body: a match is pushed when it is not null
\* and its confidence exceeds 0.5.
isReported(match) == Len(match) = 1 /\ match[1].confidence > 30

\* The inner loop over Object.entries(CHORD_FORMULAS) for one root.
RECURSIVE matchesForRoot(_, _, _)
matchesForRoot(root, j, uniqueNotes) ==
    IF j > Len(QualityOrder) THEN <<>>
    ELSE LET quality == QualityOrder[j]
             match   == matchChord(root, quality, CHORD_FORMULAS[quality], uniqueNotes)
         IN  (IF isReported(match) THEN match ELSE <<>>)
                 \o matchesForRoot(root, j + 1, uniqueNotes)

\* The outer loop over the unique notes as candidate roots.
RECURSIVE collectMatches(_, _)
collectMatches(i, uniqueNotes) ==
    IF i > Len(uniqueNotes) THEN <<>>
    ELSE matchesForRoot(uniqueNotes[i], 1, uniqueNotes)
             \o collectMatches(i + 1, uniqueNotes)

\* Variant: m goes in front of the elements of equal confidence.
insertMatch_beforeEqual(sorted, m) ==
    LET k == Cardinality({i \in 1..Len(sorted) : sorted[i].confidence > m.confidence})
    IN  SubSeq(sorted, 1, k) \o <<m>> \o SubSeq(sorted, k + 1, Len(sorted))

\* Insert m behind every element that does not sort after it: the comparator
\* (a, b) => b.confidence - a.confidence under a stable sort.
RECURSIVE insertMatch(_, _)
insertMatch(sorted, m) ==
    IF sorted = <<>> THEN <<m>>
    ELSE IF Head(sorted).confidence >= m.confidence
         THEN <<Head(sorted)>> \o insertMatch(Tail(sorted), m)
         ELSE <<m>> \o sorted

RECURSIVE sortFrom(_, _, _)
sortFrom(matches, i, sorted) ==
    IF i > Len(matches) THEN sorted
    ELSE sortFrom(matches, i + 1, insertMatch(sorted, matches[i]))

\* Variant: the matches stay in discovery order.
sortByConfidence_unsorted(matches) == matches

\* Array.prototype.sort by confidence, highest first; stable.
sortByConfidence(matches) == sortFrom(matches, 1, <<>>)

identifyChords(notes) ==
    IF Len(notes) = 0 THEN <<>>
    ELSE LET uniqueNotes == getUniqueNotes(notes)
         IN  IF Len(uniqueNotes) = 0 THEN <<>>
             ELSE sortByConfidence(collectMatches(1, uniqueNotes))

----------------------------------------------------------------------------
(* Notes of the shared note model: NoteFactory and noteToString *)

VALID_PITCHES == {<<"C">>, <<"D">>, <<"E">>, <<"F">>, <<"G">>, <<"A">>, <<"B">>}

VALID_ACCIDENTALS == {<<>>, <<"#">>, <<"b">>}

\* NoteFactory.create without an octave: the octave stays undefined, which
\* the record shows by having no octave field.  Every call the services make
\* passes a valid pitch and accidental, so the two throws are never taken.
create(pitch, accidental) == [pitch |-> pitch, accidental |-> accidental]

\* NoteFactory.create with an octave.
createWithOctave(pitch, accidental, octave) ==
    [pitch |-> pitch, accidental |-> accidental, octave |-> octave]

hasOctave(note) == "octave" \in DOMAIN note

\* NoteFactory.normalize: a legacy pitch matching /^([A-G])([#b])$/ is split.
normalize(note) ==
    IF /\ Len(note.pitch) > 1
       /\ Len(note.pitch) = 2
       /\ <<note.pitch[1]>> \in VALID_PITCHES
       /\ note.pitch[2] \in {"#", "b"}
    THEN IF hasOctave(note)
         THEN createWithOctave(<<note.pitch[1]>>, <<note.pitch[2]>>, note.octave)
         ELSE create(<<note.pitch[1]>>, <<note.pitch[2]>>)
    ELSE note

\* The decimal digits a template string writes for an octave number.
Digits == <<"0", "1", "2", "3", "4", "5", "6", "7", "8", "9">>

RECURSIVE numberToString(_)
numberToString(n) ==
    IF n < 10 THEN <<Digits[n + 1]>>
    ELSE numberToString(n \div 10) \o <<Digits[(n % 10) + 1]>>

\* `${note.pitch}${note.accidental}${note.octave !== undefined ? note.octave : ''}`
noteToString(note) ==
    note.pitch \o note.accidental
        \o (IF hasOctave(note) THEN numberToString(note.octave) ELSE <<>>)

----------------------------------------------------------------------------
(* NoteFactory called directly: the validating constructor and the parser *)

\* How a call that threw ends.
Raised == [outcome |-> "raised", note |-> <<>>, warned |-> FALSE]

\* How a call that returned a note ends; warned tells whether console.warn
\* was called on the way.
Returned(note, warned) == [outcome |-> "returned", note |-> <<note>>, warned |-> warned]

\* Variant: the accidental is not validated.
validatingCreate_anyAccidental(pitch, accidental, octave) ==
    IF pitch \notin VALID_PITCHES THEN Raised
    ELSE IF octave = <<>> THEN Returned(create(pitch, accidental), FALSE)
         ELSE Returned(createWithOctave(pitch, accidental, octave[1]), FALSE)

\* NoteFactory.create with its two throws and its warning.  octave is <<>>
\* for an omitted argument and <<n>> for a given one.
validatingCreate(pitch, accidental, octave) ==
    IF pitch \notin VALID_PITCHES THEN Raised
    ELSE IF accidental \notin VALID_ACCIDENTALS THEN Raised
    ELSE LET warned == octave # <<>> /\ (octave[1] < 0 \/ octave[1] > 8)
         IN  IF octave = <<>>
             THEN Returned(create(pitch, accidental), warned)
             ELSE Returned(createWithOctave(pitch, accidental, octave[1]), warned)

\* The characters [A-G] of the pattern.
LettersAToG == {"A", "B", "C", "D", "E", "F", "G"}

\* noteString.match(/^([A-G])([#b]?)(\d*)$/): <<>> for null, else the three
\* groups.  The optional accidental is greedy; giving it back never helps,
\* because the character it held is no digit.
matchNoteString(noteString) ==
    IF Len(noteString) = 0 \/ noteString[1] \notin LettersAToG THEN <<>>
    ELSE LET accidental ==
                 IF Len(noteString) >= 2 /\ noteString[2] \in {"#", "b"}
                 THEN <<noteString[2]>> ELSE <<>>
             octaveStr == SubSeq(noteString, 2 + Len(accidental), Len(noteString))
         IN  IF \A i \in 1..Len(octaveStr) : octaveStr[i] \in Range(Digits)
             THEN << [pitch |-> <<noteString[1]>>, accidental |-> accidental,
                      octaveStr |-> octaveStr] >>
             ELSE <<>>

\* The value of one decimal digit.
digitValue(c) == CHOOSE d \in 0..9 : Digits[d + 1] = c

\* Variant: parseInt that reads only the last digit.
parseInt_lastDigit(digits) == digitValue(digits[Len(digits)])

\* parseInt(octaveStr, 10) on a non-empty string of decimal digits.
RECURSIVE parseInt(_)
parseInt(digits) ==
    IF Len(digits) = 1 THEN digitValue(digits[1])
    ELSE 10 * parseInt(SubSeq(digits, 1, Len(digits) - 1)) + digitValue(digits[Len(digits)])

\* NoteFactory.fromString.
fromString(noteString) ==
    LET match == matchNoteString(noteString)
    IN  IF match = <<>> THEN Raised
        ELSE LET octave == IF match[1].octaveStr # <<>>
                           THEN <<parseInt(match[1].octaveStr)>> ELSE <<>>
             IN  validatingCreate(match[1].pitch, match[1].accidental, octave)

\* NoteFactory.isValid.
isValid(note) ==
    /\ note.pitch \in VALID_PITCHES
    /\ note.accidental \in VALID_ACCIDENTALS
    /\ (~hasOctave(note) \/ (note.octave >= 0 /\ note.octave <= 8))

----------------------------------------------------------------------------
(* MusicTheoryService: scales and their diatonic chords *)

ScaleTypes == <<"major", "natural_minor", "harmonic_minor", "melodic_minor">>

SCALE_FORMULAS ==
    [t \in Range(ScaleTypes) |->
        CASE t = "major"          -> <<0, 2, 4, 5, 7, 9, 11>>
          [] t = "natural_minor"  -> <<0, 2, 3, 5, 7, 8, 10>>
          [] t = "harmonic_minor" -> <<0, 2, 3, 5, 7, 8, 11>>
          [] t = "melodic_minor"  -> <<0, 2, 3, 5, 7, 9, 11>>]

FLAT_KEYS ==
    << <<"F">>, <<"B", "b">>, <<"E", "b">>, <<"A", "b">>, <<"D", "b">>,
       <<"G", "b">>, <<"C", "b">> >>

ChordFormula(quality, roman) == [quality |-> quality, roman |-> roman]

MAJOR_TRIADS ==
    << ChordFormula("major", "I"), ChordFormula("minor", "ii"), ChordFormula("minor", "iii"),
       ChordFormula("major", "IV"), ChordFormula("major", "V"), ChordFormula("minor", "vi"),
       ChordFormula("diminished", "vii°") >>

NATURAL_MINOR_TRIADS ==
    << ChordFormula("minor", "i"), ChordFormula("diminished", "ii°"), ChordFormula("major", "III"),
       ChordFormula("minor", "iv"), ChordFormula("minor", "v"), ChordFormula("major", "VI"),
       ChordFormula("major", "VII") >>

HARMONIC_MINOR_TRIADS ==
    << ChordFormula("minor", "i"), ChordFormula("diminished", "ii°"), ChordFormula("augmented", "III+"),
       ChordFormula("minor", "iv"), ChordFormula("major", "V"), ChordFormula("major", "VI"),
       ChordFormula("diminished", "vii°") >>

MELODIC_MINOR_TRIADS ==
    << ChordFormula("minor", "i"), ChordFormula("minor", "ii"), ChordFormula("augmented", "III+"),
       ChordFormula("major", "IV"), ChordFormula("major", "V"), ChordFormula("diminished", "vi°"),
       ChordFormula("diminished", "vii°") >>

MAJOR_SEVENTHS ==
    << ChordFormula("major7", "Imaj7"), ChordFormula("minor7", "ii7"), ChordFormula("minor7", "iii7"),
       ChordFormula("major7", "IVmaj7"), ChordFormula("dominant7", "V7"), ChordFormula("minor7", "vi7"),
       ChordFormula("half-diminished7", "viiø7") >>

NATURAL_MINOR_SEVENTHS ==
    << ChordFormula("minor7", "i7"), ChordFormula("half-diminished7", "iiø7"),
       ChordFormula("major7", "IIImaj7"), ChordFormula("minor7", "iv7"), ChordFormula("minor7", "v7"),
       ChordFormula("major7", "VImaj7"), ChordFormula("dominant7", "VII7") >>

HARMONIC_MINOR_SEVENTHS ==
    << ChordFormula("minor7", "i7"), ChordFormula("half-diminished7", "iiø7"),
       ChordFormula("major7", "IIImaj7"), ChordFormula("minor7", "iv7"), ChordFormula("dominant7", "V7"),
       ChordFormula("major7", "VImaj7"), ChordFormula("diminished7", "vii°7") >>

MELODIC_MINOR_SEVENTHS ==
    << ChordFormula("minor7", "i7"), ChordFormula("minor7", "ii7"), ChordFormula("major7", "IIImaj7"),
       ChordFormula("dominant7", "IV7"), ChordFormula("dominant7", "V7"),
       ChordFormula("half-diminished7", "viø7"), ChordFormula("half-diminished7", "viiø7") >>

\* Variant: the major table for every scale kind.
getTriadFormulas_alwaysMajor(scaleType) == MAJOR_TRIADS

getTriadFormulas(scaleType) ==
    CASE scaleType = "major"          -> MAJOR_TRIADS
      [] scaleType = "natural_minor"  -> NATURAL_MINOR_TRIADS
      [] scaleType = "harmonic_minor" -> HARMONIC_MINOR_TRIADS
      [] scaleType = "melodic_minor"  -> MELODIC_MINOR_TRIADS

getSeventhFormulas(scaleType) ==
    CASE scaleType = "major"          -> MAJOR_SEVENTHS
      [] scaleType = "natural_minor"  -> NATURAL_MINOR_SEVENTHS
      [] scaleType = "harmonic_minor" -> HARMONIC_MINOR_SEVENTHS
      [] scaleType = "melodic_minor"  -> MELODIC_MINOR_SEVENTHS

\* MusicTheoryService.getNoteIndex.
theoryGetNoteIndex(note) ==
    LET normalized == normalize(note)
        index      == IndexOf(CHROMATIC_SCALE, normalized.pitch)
    IN  IF normalized.accidental = <<"#">> THEN (index + 1) % 12
        ELSE IF normalized.accidental = <<"b">> THEN (index - 1 + 12) % 12
        ELSE index

\* Variant: a flat is written on the letter below.
getNoteAtIndex_flatOnLowerLetter(index, useFlats) ==
    LET pitch == CHROMATIC_SCALE[index + 1]
    IN  IF useFlats /\ includes(pitch, "#")
        THEN create(<<pitch[1]>>, <<"b">>)
        ELSE IF Len(pitch) = 1 THEN create(pitch, <<>>)
             ELSE create(<<pitch[1]>>, <<"#">>)

getNoteAtIndex(index, useFlats) ==
    LET pitch == CHROMATIC_SCALE[index + 1]
    IN  IF useFlats /\ includes(pitch, "#")
        THEN create(CHROMATIC_SCALE[((index + 1) % 12) + 1], <<"b">>)
        ELSE IF Len(pitch) = 1 THEN create(pitch, <<>>)
             ELSE create(<<pitch[1]>>, <<"#">>)

shouldUseFlats(root) ==
    LET rootName == noteToString(root)
    IN  rootName \in Range(FLAT_KEYS) \/ root.accidental = <<"b">>

\* Variant: the root is left out, every degree is counted from C.
calculateScaleNotes_fromC(root, scaleType) ==
    LET formulaOf == SCALE_FORMULAS[scaleType]
        useFlats  == shouldUseFlats(root)
    IN  [k \in 1..Len(formulaOf) |-> getNoteAtIndex(formulaOf[k] % 12, useFlats)]

calculateScaleNotes(root, scaleType) ==
    LET formulaOf == SCALE_FORMULAS[scaleType]
        rootIndex == theoryGetNoteIndex(root)
        useFlats  == shouldUseFlats(root)
    IN  [k \in 1..Len(formulaOf) |->
            getNoteAtIndex((rootIndex + formulaOf[k]) % 12, useFlats)]

\* MusicTheoryService.getChordDisplayName.
theoryGetChordDisplayName(root, quality, isSeventh) ==
    LET rootName == noteToString(root)
    IN  IF ~isSeventh
        THEN CASE quality = "major"      -> rootName
               [] quality = "minor"      -> rootName \o <<"m">>
               [] quality = "diminished" -> rootName \o <<"d", "i", "m">>
               [] quality = "augmented"  -> rootName \o <<"a", "u", "g">>
               [] OTHER                  -> rootName
        ELSE CASE quality = "major7"           -> rootName \o <<"m", "a", "j", "7">>
               [] quality = "minor7"           -> rootName \o <<"m", "7">>
               [] quality = "dominant7"        -> rootName \o <<"7">>
               [] quality = "diminished7"      -> rootName \o <<"d", "i", "m", "7">>
               [] quality = "half-diminished7" -> rootName \o <<"m", "7", "b", "5">>
               [] OTHER                        -> rootName \o <<"7">>

\* Variant: the chord is built of adjacent scale notes.
calculateTriads_adjacent(scaleNotes, scaleType) ==
    LET formulas == getTriadFormulas(scaleType)
    IN  [k \in 1..Len(formulas) |->
            LET index == k - 1
                root  == scaleNotes[index + 1]
                third == scaleNotes[((index + 1) % 7) + 1]
                fifth == scaleNotes[((index + 2) % 7) + 1]
            IN  [root         |-> root,
                 quality      |-> formulas[k].quality,
                 notes        |-> <<root, third, fifth>>,
                 romanNumeral |-> formulas[k].roman,
                 displayName  |-> theoryGetChordDisplayName(root, formulas[k].quality, FALSE)]]

calculateTriads(scaleNotes, scaleType) ==
    LET formulas == getTriadFormulas(scaleType)
    IN  [k \in 1..Len(formulas) |->
            LET index == k - 1
                root  == scaleNotes[index + 1]
                third == scaleNotes[((index + 2) % 7) + 1]
                fifth == scaleNotes[((index + 4) % 7) + 1]
            IN  [root         |-> root,
                 quality      |-> formulas[k].quality,
                 notes        |-> <<root, third, fifth>>,
                 romanNumeral |-> formulas[k].roman,
                 displayName  |-> theoryGetChordDisplayName(root, formulas[k].quality, FALSE)]]

calculateSevenths(scaleNotes, scaleType) ==
    LET formulas == getSeventhFormulas(scaleType)
    IN  [k \in 1..Len(formulas) |->
            LET index   == k - 1
                root    == scaleNotes[index + 1]
                third   == scaleNotes[((index + 2) % 7) + 1]
                fifth   == scaleNotes[((index + 4) % 7) + 1]
                seventh == scaleNotes[((index + 6) % 7) + 1]
            IN  [root         |-> root,
                 quality      |-> formulas[k].quality,
                 notes        |-> <<root, third, fifth, seventh>>,
                 romanNumeral |-> formulas[k].roman,
                 displayName  |-> theoryGetChordDisplayName(root, formulas[k].quality, TRUE)]]

getScale(root, scaleType) ==
    LET scaleNotes == calculateScaleNotes(root, scaleType)
        triads     == calculateTriads(scaleNotes, scaleType)
        sevenths   == calculateSevenths(scaleNotes, scaleType)
    IN  [root   |-> root,
         type   |-> scaleType,
         notes  |-> scaleNotes,
         chords |-> triads \o sevenths]

\* The twelve roots the application offers, in sharps, without octave.
getAllRootNotes ==
    << create(<<"C">>, <<>>), create(<<"C">>, <<"#">>), create(<<"D">>, <<>>),
       create(<<"D">>, <<"#">>), create(<<"E">>, <<>>), create(<<"F">>, <<>>),
       create(<<"F">>, <<"#">>), create(<<"G">>, <<>>), create(<<"G">>, <<"#">>),
       create(<<"A">>, <<>>), create(<<"A">>, <<"#">>), create(<<"B">>, <<>>) >>

----------------------------------------------------------------------------
(* FretboardService: the positions of a chord or a scale in a fret window *)

\* note.octave, undefined when the note carries none.
octaveOf(note) == IF hasOctave(note) THEN <<note.octave>> ELSE <<>>

\* Variant: notesEqual that compares the fields as stored, without
\* normalising a legacy combined pitch.
modelNotesEqual_withoutNormalize(note1, note2, ignoreOctave) ==
    LET pitchMatch == note1.pitch = note2.pitch /\ note1.accidental = note2.accidental
    IN  IF ignoreOctave THEN pitchMatch
        ELSE pitchMatch /\ octaveOf(note1) = octaveOf(note2)

\* notesEqual of the note model (note.model.ts); the services name it
\* notesEqual and call it with ignoreOctave left at true.
modelNotesEqual(note1, note2, ignoreOctave) ==
    LET n1 == normalize(note1)
        n2 == normalize(note2)
        pitchMatch == n1.pitch = n2.pitch /\ n1.accidental = n2.accidental
    IN  IF ignoreOctave THEN pitchMatch
        ELSE pitchMatch /\ octaveOf(n1) = octaveOf(n2)

isNoteInChord(note, chord) ==
    \E i \in 1..Len(chord.notes) : modelNotesEqual(note, chord.notes[i], TRUE)

isNoteInScale(note, scale) ==
    \E i \in 1..Len(scale.notes) : modelNotesEqual(note, scale.notes[i], TRUE)

\* The object literal degreeMap of getFretboardPositions.
degreeMap ==
    [interval \in {0, 2, 3, 4, 5, 7, 9, 10, 11, 14} |->
        CASE interval = 0  -> 1
          [] interval = 2  -> 2
          [] interval = 3  -> 3
          [] interval = 4  -> 3
          [] interval = 5  -> 4
          [] interval = 7  -> 5
          [] interval = 9  -> 6
          [] interval = 10 -> 7
          [] interval = 11 -> 7
          [] interval = 14 -> 9]

\* Variant: the label is the interval in semitones.
chordScaleDegree_semitones(note, chord) ==
    LET rootIndex == fretboardGetNoteIndex(chord.root)
        noteIndex == fretboardGetNoteIndex(note)
        interval  == (noteIndex - rootIndex + 12) % 12
    IN  <<interval>>

\* The scaleDegree of a chord tone in getFretboardPositions: <<d>>, or <<>>
\* where the code leaves it undefined.
chordScaleDegree(note, chord) ==
    LET rootIndex == fretboardGetNoteIndex(chord.root)
        noteIndex == fretboardGetNoteIndex(note)
        interval  == (noteIndex - rootIndex + 12) % 12
    IN  IF interval \in DOMAIN degreeMap THEN <<degreeMap[interval]>> ELSE <<>>

\* getNoteAtFret for every string and every fret of a window, computed once.
noteCells == {<<stringNum, fret>> : stringNum \in 1..6, fret \in 0..(MaxFretStart + 3)}

noteTable == [cell \in noteCells |-> getNoteAtFret(STANDARD_TUNING[cell[1]], cell[2])]

\* The (string, fret) pairs in the order of the two nested loops.
windowCells(fretStart, fretEnd) ==
    LET width == fretEnd - fretStart + 1
    IN  [k \in 1..(6 * width) |->
            [string |-> ((k - 1) \div width) + 1,
             fret   |-> fretStart + ((k - 1) % width)]]

getFretboardPositions(chord, fretStart, fretEnd) ==
    LET cells == windowCells(fretStart, fretEnd)
    IN  [k \in 1..Len(cells) |->
            LET note      == noteTable[<<cells[k].string, cells[k].fret>>]
                isInChord == isNoteInChord(note, chord)
                isRoot    == modelNotesEqual(note, chord.root, TRUE)
            IN  [string      |-> cells[k].string,
                 fret        |-> cells[k].fret,
                 note        |-> note,
                 isRoot      |-> isRoot,
                 isInChord   |-> isInChord,
                 scaleDegree |-> IF isInChord THEN chordScaleDegree(note, chord) ELSE <<>>]]

\* The first i (0-based) with notesEqual(note, scale.notes[i]) gives i + 1.
getScaleDegree(note, scale) ==
    IF \E i \in 1..Len(scale.notes) : modelNotesEqual(note, scale.notes[i], TRUE)
    THEN <<CHOOSE i \in 1..Len(scale.notes) :
                /\ modelNotesEqual(note, scale.notes[i], TRUE)
                /\ \A j \in 1..(i - 1) : ~modelNotesEqual(note, scale.notes[j], TRUE)>>
    ELSE <<>>

getScaleFretboardPositions(scale, fretStart, fretEnd) ==
    LET cells == windowCells(fretStart, fretEnd)
    IN  [k \in 1..Len(cells) |->
            LET note      == noteTable[<<cells[k].string, cells[k].fret>>]
                isInScale == isNoteInScale(note, scale)
                isRoot    == modelNotesEqual(note, scale.root, TRUE)
            IN  [string      |-> cells[k].string,
                 fret        |-> cells[k].fret,
                 note        |-> note,
                 isRoot      |-> isRoot,
                 isInChord   |-> isInScale,
                 scaleDegree |-> IF isInScale THEN getScaleDegree(note, scale) ELSE <<>>]]

----------------------------------------------------------------------------
(* FretboardComponent in the explorer: the fret window, the selection, the  *)
(* muted strings, and the parent's copy of the selection                    *)

\* @Input() autoSelectChord, left at its default.
autoSelectChord == TRUE

\* The field initialisers of FretboardComponent.  selectedPositionsSet holds
\* keys `${string}-${fret}`; previousChordName is <<>> for null.
NewFretboard ==
    [fretStart            |-> 0,
     fretEnd              |-> 3,
     expandedView         |-> FALSE,
     selectedPositionsSet |-> {},
     mutedStrings         |-> {1, 2, 3, 4, 5, 6},
     previousChordName    |-> <<>>]

\* The key `${string}-${fret}` of a position.
positionKey(stringNum, fret) ==
    numberToString(stringNum) \o <<"-">> \o numberToString(fret)

\* String.prototype.startsWith.
startsWith(str, prefix) ==
    Len(str) >= Len(prefix) /\ SubSeq(str, 1, Len(prefix)) = prefix

\* posKey.split('-').map(Number): the digits before and after the hyphen.
hyphenAt(posKey) == CHOOSE i \in 1..Len(posKey) : posKey[i] = "-"

keyString(posKey) == parseInt(SubSeq(posKey, 1, hyphenAt(posKey) - 1))

keyFret(posKey) == parseInt(SubSeq(posKey, hyphenAt(posKey) + 1, Len(posKey)))


----------------------------------------------------------------------------
(* The caller: ChordIdentifierComponent *)

\* The notes the fretboard hands over: those of the positions on frets
\* 0..MaxFret of the six strings.
FretboardNotes ==
    {getNoteAtPosition(stringNum, fret) : stringNum \in 1..6, fret \in 0..MaxFret}

\* Notes in the other spellings.
OtherSpelledNotes ==
    {[pitch |-> <<sp[1]>>, accidental |-> <<sp[2]>>, octave |-> 4] : sp \in OtherSpellings}

\* ChordIdentifierComponent.identifyChords: an empty selection clears the
\* matches without calling the service.
componentIdentify(notes) ==
    IF Len(notes) = 0 THEN <<>> ELSE identifyChords(notes)

\* No positions call made yet; the window is the one FretboardComponent
\* starts with (fretStart = 0, fretEnd = 3).
NoRequest == [context |-> "none", chord |-> <<>>, fretStart |-> 0, fretEnd |-> 3]

\* No direct call of the note model made.
NoCall == [op |-> "none"]

NoResult == [outcome |-> "none"]

\* AppComponent's constructor selects rootNotes[0] and the major scale and
\* calls updateScale.
Init ==
    /\ selectedNotes = <<>>
    /\ chordMatches = <<>>
    /\ outcome = "none"
    /\ currentScale = getScale(getAllRootNotes[1], "major")
    /\ positions = <<>>
    /\ request = NoRequest
    /\ modelCall = NoCall
    /\ modelResult = NoResult
    /\ fretboard = NewFretboard
    /\ selectedChord = <<>>
    /\ selectedFretboardPositions = {}
    /\ timers = 0
    /\ emitted = <<>>

\* ngOnChanges after a position was added to the selection.
SelectNote(n) ==
    /\ Len(selectedNotes) < MaxNotes
    /\ selectedNotes' = Append(selectedNotes, n)
    /\ chordMatches' = componentIdentify(selectedNotes')
    /\ outcome' = "returned"
    /\ UNCHANGED <<explorerVars, noteModelVars, fretboardVars>>

\* ngOnChanges after the parent emptied the selection.
ClearSelection ==
    /\ Len(selectedNotes) > 0
    /\ selectedNotes' = <<>>
    /\ chordMatches' = componentIdentify(selectedNotes')
    /\ outcome' = "none"
    /\ UNCHANGED <<explorerVars, noteModelVars, fretboardVars>>

Next ==
    \/ \E n \in FretboardNotes : SelectNote(n)
    \/ ClearSelection

Spec == Init /\ [][Next]_vars

\* The service called directly with notes of any spelling.
CallWithSpelling(n) ==
    /\ Len(selectedNotes) < MaxNotes
    /\ selectedNotes' = Append(selectedNotes, n)
    /\ chordMatches' = identifyChords(selectedNotes')
    /\ outcome' = "returned"
    /\ UNCHANGED <<explorerVars, noteModelVars, fretboardVars>>

NextAnySpelling ==
    \/ \E n \in FretboardNotes \cup OtherSpelledNotes : CallWithSpelling(n)
    \/ ClearSelection

SpecAnySpelling == Init /\ [][NextAnySpelling]_vars

----------------------------------------------------------------------------
(* The scale explorer: MusicTheoryService and FretboardService called with *)
(* any valid root and any fret window                                      *)

\* The octave of the roots that carry one.
RootOctaves == {4}

\* Every valid root: a letter, an accidental, with or without an octave.
ValidRoots ==
    {create(p, a) : p \in VALID_PITCHES, a \in VALID_ACCIDENTALS}
        \cup {createWithOctave(p, a, o) :
                  p \in VALID_PITCHES, a \in VALID_ACCIDENTALS, o \in RootOctaves}

\* getScale for every root and scale kind, computed once.
scaleKeys == {<<root, scaleType>> : root \in ValidRoots, scaleType \in Range(ScaleTypes)}

scaleTable == [key \in scaleKeys |-> getScale(key[1], key[2])]

\* AppComponent.updateScale computes getScale(selectedRoot, selectedScaleType).
updateScale(selectedRoot, selectedScaleType) == scaleTable[<<selectedRoot, selectedScaleType>>]

\* AppComponent.onRootChange: a new root, the scale kind kept; the
\* positions computed for the previous scale are dropped.
OnRootChange(root) ==
    /\ currentScale' = updateScale(root, currentScale.type)
    /\ positions' = <<>>
    /\ request' = NoRequest
    /\ UNCHANGED <<identifierVars, noteModelVars, fretboardVars>>

\* AppComponent.onScaleTypeChange: a new scale kind, the root kept.
OnScaleTypeChange(scaleType) ==
    /\ currentScale' = updateScale(currentScale.root, scaleType)
    /\ positions' = <<>>
    /\ request' = NoRequest
    /\ UNCHANGED <<identifierVars, noteModelVars, fretboardVars>>

\* The positions of every chord (k in 1..14) and of the scale itself (k = 0)
\* of every scale, in every window, computed once.
positionKeys ==
    {<<key, k, fretStart>> : key \in scaleKeys, k \in 0..14, fretStart \in 0..MaxFretStart}

positionsTable ==
    [pk \in positionKeys |->
        IF pk[2] = 0
        THEN getScaleFretboardPositions(scaleTable[pk[1]], pk[3], pk[3] + 3)
        ELSE getFretboardPositions(scaleTable[pk[1]].chords[pk[2]], pk[3], pk[3] + 3)]

currentKey == <<currentScale.root, currentScale.type>>

\* getFretboardPositions for the k-th chord of the current scale and the
\* four-fret window starting at fretStart.
ChordPositions(k, fretStart) ==
    /\ k <= Len(currentScale.chords)
    /\ positions' = positionsTable[<<currentKey, k, fretStart>>]
    /\ request' = [context |-> "chord", chord |-> <<currentScale.chords[k]>>,
                   fretStart |-> fretStart, fretEnd |-> fretStart + 3]
    /\ UNCHANGED <<currentScale, identifierVars, noteModelVars, fretboardVars>>

\* getScaleFretboardPositions for the current scale.
ScalePositions(fretStart) ==
    /\ positions' = positionsTable[<<currentKey, 0, fretStart>>]
    /\ request' = [context |-> "scale", chord |-> <<>>,
                   fretStart |-> fretStart, fretEnd |-> fretStart + 3]
    /\ UNCHANGED <<currentScale, identifierVars, noteModelVars, fretboardVars>>

NextExplorer ==
    \/ \E root \in ValidRoots : OnRootChange(root)
    \/ \E scaleType \in Range(ScaleTypes) : OnScaleTypeChange(scaleType)
    \/ \E k \in 1..14, fretStart \in 0..MaxFretStart : ChordPositions(k, fretStart)
    \/ \E fretStart \in 0..MaxFretStart : ScalePositions(fretStart)

SpecExplorer == Init /\ [][NextExplorer]_vars

----------------------------------------------------------------------------
(* The note model called directly: the parser, the validating constructor   *)
(* and notesEqual, each applied to arguments drawn from bounded sets        *)

\* The characters of the strings handed to the parser: the first, a middle
\* and the last letter of [A-G], the letter after it, both accidental
\* signs and four digits.
NoteChars == {"A", "C", "G", "H", "#", "b", "0", "1", "8", "9"}

NoteStrings == UNION {[1..n -> NoteChars] : n \in 0..MaxStringLen}

\* Arguments of NoteFactory.create: valid and invalid letters (a legacy
\* combined pitch, a lower-case letter, the empty string), valid and
\* invalid accidentals, octaves inside and outside 0..8.
CreatePitches == {<<"C">>, <<"B">>, <<"H">>, <<"c">>, <<"C", "#">>, <<>>}

CreateAccidentals == {<<>>, <<"#">>, <<"b">>, <<"x">>, <<"#", "#">>}

CreateOctaves == {<<>>, <<-1>>, <<0>>, <<4>>, <<8>>, <<9>>, <<12>>}

\* Arguments of notesEqual: separated notes and legacy combined ones, with
\* and without an octave.
ComparedOctaves == {3, 4}

ComparedShapes ==
    {[pitch |-> p, accidental |-> a] :
        p \in {<<"C">>, <<"D">>}, a \in VALID_ACCIDENTALS}
        \cup {[pitch |-> <<"C", "#">>, accidental |-> <<>>],
              [pitch |-> <<"D", "b">>, accidental |-> <<>>]}

ComparedNotes ==
    ComparedShapes
        \cup {[pitch |-> n.pitch, accidental |-> n.accidental, octave |-> o] :
                  n \in ComparedShapes, o \in ComparedOctaves}

ModelCalls ==
    {[op |-> "fromString", noteString |-> s] : s \in NoteStrings}
        \cup {[op |-> "create", pitch |-> p, accidental |-> a, octave |-> o] :
                  p \in CreatePitches, a \in CreateAccidentals, o \in CreateOctaves}
        \cup {[op |-> "notesEqual", note1 |-> n1, note2 |-> n2, ignoreOctave |-> i] :
                  n1 \in ComparedNotes, n2 \in ComparedNotes, i \in BOOLEAN}

\* The application as constructed, and one pending call of the note model.
InitNoteModel ==
    /\ selectedNotes = <<>>
    /\ chordMatches = <<>>
    /\ outcome = "none"
    /\ currentScale = getScale(getAllRootNotes[1], "major")
    /\ positions = <<>>
    /\ request = NoRequest
    /\ modelCall \in ModelCalls
    /\ modelResult = NoResult
    /\ fretboard = NewFretboard
    /\ selectedChord = <<>>
    /\ selectedFretboardPositions = {}
    /\ timers = 0
    /\ emitted = <<>>

\* NoteFactory.fromString(noteString).
FromString ==
    /\ modelCall.op = "fromString"
    /\ modelResult = NoResult
    /\ modelResult' = fromString(modelCall.noteString)
    /\ UNCHANGED <<modelCall, identifierVars, explorerVars, fretboardVars>>

\* NoteFactory.create(pitch, accidental, octave).
Create ==
    /\ modelCall.op = "create"
    /\ modelResult = NoResult
    /\ modelResult' = validatingCreate(modelCall.pitch, modelCall.accidental, modelCall.octave)
    /\ UNCHANGED <<modelCall, identifierVars, explorerVars, fretboardVars>>

\* notesEqual(note1, note2, ignoreOctave).
NotesEqual ==
    /\ modelCall.op = "notesEqual"
    /\ modelResult = NoResult
    /\ modelResult' = [outcome |-> "returned",
                       value |-> modelNotesEqual(modelCall.note1, modelCall.note2,
                                                 modelCall.ignoreOctave)]
    /\ UNCHANGED <<modelCall, identifierVars, explorerVars, fretboardVars>>

NextNoteModel ==
    \/ FromString
    \/ Create
    \/ NotesEqual

SpecNoteModel == InitNoteModel /\ [][NextNoteModel]_vars

----------------------------------------------------------------------------
(* The two services together: the notes of a chord of the current scale    *)
(* handed to identifyChords                                                *)

\* AppComponent.onRootChange(index) with the roots the selector offers.
OnRootSelect(index) ==
    /\ currentScale' = updateScale(getAllRootNotes[index], currentScale.type)
    /\ positions' = <<>>
    /\ request' = NoRequest
    /\ UNCHANGED <<identifierVars, noteModelVars, fretboardVars>>

\* identifyChords on the notes of each chord of each scale the selectors can
\* produce, computed once.
offeredKeys ==
    {<<getAllRootNotes[index], scaleType>> : index \in 1..12, scaleType \in Range(ScaleTypes)}

identifiedTable ==
    [key \in offeredKeys, k \in 1..14 |-> identifyChords(scaleTable[key].chords[k].notes)]

\* identifyChords(chord.notes) for the k-th chord of the current scale.
IdentifyScaleChord(k) ==
    /\ selectedNotes' = currentScale.chords[k].notes
    /\ chordMatches' = identifiedTable[currentKey, k]
    /\ outcome' = "returned"
    /\ UNCHANGED <<explorerVars, noteModelVars, fretboardVars>>

NextDiatonic ==
    \/ \E index \in 1..12 : OnRootSelect(index)
    \/ \E scaleType \in Range(ScaleTypes) : OnScaleTypeChange(scaleType)
    \/ \E k \in 1..14 : IdentifyScaleChord(k)

SpecDiatonic == Init /\ [][NextDiatonic]_vars

----------------------------------------------------------------------------
(* FretboardComponent: chord loads, clicks, window moves and emissions *)

\* The chords a chord click can hand to the fretboard: those of the four
\* scales of the root the explorer starts with.
clickableChords ==
    UNION {Range(scaleTable[<<getAllRootNotes[1], scaleType>>].chords) :
               scaleType \in Range(ScaleTypes)}

\* Every such chord with every four-fret window that starts at or below
\* MaxFretStart.
chordWindows ==
    {<<chord, fretStart, fretStart + 3>> : chord \in clickableChords, fretStart \in 0..MaxFretStart}

\* The positions of one string in a window: getFretboardPositions(...)
\* .filter(pos => pos.string === stringNum).
positionsOfString(chord, fretStart, fretEnd, stringNum) ==
    SelectSeq(getFretboardPositions(chord, fretStart, fretEnd),
              LAMBDA pos : pos.string = stringNum)

\* this.strings as updateFretboard computes it, for every chord and window
\* of chordWindows.
stringsTable ==
    [cw \in chordWindows |->
        [stringNum \in 1..6 |-> positionsOfString(cw[1], cw[2], cw[3], stringNum)]]

\* The positions of one entry of this.strings: none without a chord, else
\* those of the window on that string, read from stringsTable.  (The scale
\* input is not bound here.)
stringPositions(chord, fretStart, fretEnd, stringNum) ==
    IF chord = <<>> THEN <<>>
    ELSE stringsTable[<<chord[1], fretStart, fretEnd>>][stringNum]

\* stringPositions.find(p => p.isInChord): <<>> for undefined.
firstChordTone(positionsOfOneString) ==
    LET tones == SelectSeq(positionsOfOneString, LAMBDA p : p.isInChord)
    IN  IF tones = <<>> THEN <<>> ELSE <<tones[1]>>

\* if (firstChordTone) { this.selectedPositionsSet.add(key) }: the key added
\* for one string, if any.
addedKey(stringNum, tone) ==
    IF tone = <<>> THEN {} ELSE {positionKey(stringNum, tone[1].fret)}

\* Variant: auto-select takes every chord tone of the window.
autoSelected_everyTone(chord, fretStart, fretEnd) ==
    {positionKey(p.string, p.fret) :
        p \in {q \in Range(getFretboardPositions(chord, fretStart, fretEnd)) : q.isInChord}}

\* The keys updateFretboard adds for a new chord: the first chord tone of
\* each string, all strings having just been unmuted.
autoSelected(chord, fretStart, fretEnd) ==
    UNION {addedKey(stringNum,
                    firstChordTone(stringPositions(<<chord>>, fretStart, fretEnd, stringNum))) :
               stringNum \in 1..6}

\* updateFretboard: the component after the call, and the number of
\* setTimeout callbacks it scheduled.  chord is the chord input, <<>> for
\* null.  this.strings is recomputed from chord and window on every call and
\* is read through stringPositions.
updateFretboard(fb, chord) ==
    IF chord = <<>> THEN [fretboard |-> fb, scheduled |-> 0]
    ELSE LET isNewChord == fb.previousChordName # <<chord[1].displayName>>
         IN  IF isNewChord /\ autoSelectChord
             THEN [fretboard |->
                       [fb EXCEPT !.mutedStrings = {},
                                  !.selectedPositionsSet =
                                      autoSelected(chord[1], fb.fretStart, fb.fretEnd),
                                  !.previousChordName = <<chord[1].displayName>>],
                   scheduled |-> 1]
             ELSE [fretboard |-> fb, scheduled |-> 0]

\* Variant: emitSelectionChange without the muted-string filter.
emitSelectionChange_unfiltered(fb, chord) ==
    {[string |-> keyString(posKey), fret |-> keyFret(posKey),
      note |-> getNoteAtPosition(keyString(posKey), keyFret(posKey)),
      isInChord |-> FALSE, isRoot |-> FALSE, scaleDegree |-> <<>>] :
        posKey \in fb.selectedPositionsSet}

\* emitSelectionChange: the positions handed to selectionChange.emit.  A
\* key on a muted string is skipped; a position outside the window is
\* rebuilt from getNoteAtPosition.  The array is kept as the set of its
\* elements.
emitSelectionChange(fb, chord) ==
    {LET stringNum == keyString(posKey)
         fret      == keyFret(posKey)
         found     == SelectSeq(stringPositions(chord, fb.fretStart, fb.fretEnd, stringNum),
                                LAMBDA p : p.fret = fret)
     IN  IF found # <<>> THEN found[1]
         ELSE [string |-> stringNum, fret |-> fret,
               note |-> getNoteAtPosition(stringNum, fret),
               isInChord |-> FALSE, isRoot |-> FALSE, scaleDegree |-> <<>>] :
        posKey \in {k \in fb.selectedPositionsSet : keyString(k) \notin fb.mutedStrings}}

\* AppComponent.onChordClick with the k-th chord of the current scale, and
\* the fretboard's ngOnChanges for its chord input.  A chord with the name
\* of the loaded one leaves the component as it is.
OnChordClick(k) ==
    /\ k <= Len(currentScale.chords)
    /\ LET chord   == <<currentScale.chords[k]>>
           updated == updateFretboard(fretboard, chord)
       IN  /\ timers + updated.scheduled <= MaxPendingEmits
           /\ selectedChord' = chord
           /\ selectedFretboardPositions' = {}
           /\ fretboard' = updated.fretboard
           /\ timers' = timers + updated.scheduled
           /\ emitted' = <<>>
    /\ UNCHANGED <<identifierVars, explorerVars, noteModelVars>>

\* The callback of setTimeout(() => this.emitSelectionChange(), 0), and
\* AppComponent.onFretboardSelectionChange for the emitted positions.
TimeoutFires ==
    /\ timers > 0
    /\ timers' = timers - 1
    /\ emitted' = <<emitSelectionChange(fretboard, selectedChord)>>
    /\ selectedFretboardPositions' = emitted'[1]
    /\ UNCHANGED <<fretboard, selectedChord, identifierVars, explorerVars, noteModelVars>>

\* onPositionClick on a position the fretboard shows.
OnPositionClick(stringNum, fret) ==
    /\ selectedChord # <<>>
    /\ fret >= fretboard.fretStart /\ fret <= fretboard.fretEnd
    /\ LET key          == positionKey(stringNum, fret)
           stringPrefix == numberToString(stringNum) \o <<"-">>
           positionsToRemove ==
               {posKey \in fretboard.selectedPositionsSet :
                    startsWith(posKey, stringPrefix) /\ posKey # key}
       IN  fretboard' =
               [fretboard EXCEPT
                    !.mutedStrings = @ \ {stringNum},
                    !.selectedPositionsSet = (@ \ positionsToRemove) \cup {key}]
    /\ emitted' = <<emitSelectionChange(fretboard', selectedChord)>>
    /\ selectedFretboardPositions' = emitted'[1]
    /\ UNCHANGED <<selectedChord, timers, identifierVars, explorerVars, noteModelVars>>

\* onStringDoubleClick: a muted string is unmuted and gets its open string
\* selected when it has no selection; an unmuted one is muted, its
\* selection kept.
OnStringDoubleClick(stringNum) ==
    /\ LET stringPrefix == numberToString(stringNum) \o <<"-">>
           hasSelection ==
               \E posKey \in fretboard.selectedPositionsSet : startsWith(posKey, stringPrefix)
       IN  fretboard' =
               IF stringNum \in fretboard.mutedStrings
               THEN [fretboard EXCEPT
                         !.mutedStrings = @ \ {stringNum},
                         !.selectedPositionsSet =
                             IF hasSelection THEN @ ELSE @ \cup {positionKey(stringNum, 0)}]
               ELSE [fretboard EXCEPT !.mutedStrings = @ \cup {stringNum}]
    /\ emitted' = <<emitSelectionChange(fretboard', selectedChord)>>
    /\ selectedFretboardPositions' = emitted'[1]
    /\ UNCHANGED <<selectedChord, timers, identifierVars, explorerVars, noteModelVars>>

\* moveUp.
MoveUp ==
    /\ fretboard.fretStart > 0
    /\ LET moved   == [fretboard EXCEPT !.fretStart = @ - 1, !.fretEnd = @ - 1]
           updated == updateFretboard(moved, selectedChord)
       IN  /\ fretboard' = updated.fretboard
           /\ timers' = timers + updated.scheduled
    /\ emitted' = <<>>
    /\ UNCHANGED <<selectedChord, selectedFretboardPositions,
                   identifierVars, explorerVars, noteModelVars>>

\* moveDown.
MoveDown ==
    /\ fretboard.fretEnd < 24
    /\ LET moved   == [fretboard EXCEPT !.fretStart = @ + 1, !.fretEnd = @ + 1]
           updated == updateFretboard(moved, selectedChord)
       IN  /\ fretboard' = updated.fretboard
           /\ timers' = timers + updated.scheduled
    /\ emitted' = <<>>
    /\ UNCHANGED <<selectedChord, selectedFretboardPositions,
                   identifierVars, explorerVars, noteModelVars>>

\* moveDown while the window starts below MaxFretStart.
MoveDownWithin ==
    /\ fretboard.fretStart < MaxFretStart
    /\ fretboard.fretEnd < 24
    /\ LET moved   == [fretboard EXCEPT !.fretStart = @ + 1, !.fretEnd = @ + 1]
           updated == updateFretboard(moved, selectedChord)
       IN  /\ fretboard' = updated.fretboard
           /\ timers' = timers + updated.scheduled
    /\ emitted' = <<>>
    /\ UNCHANGED <<selectedChord, selectedFretboardPositions,
                   identifierVars, explorerVars, noteModelVars>>

\* ngOnChanges for a change of the expandedView input.
OnExpandedViewChange(expanded) ==
    /\ expanded # fretboard.expandedView
    /\ LET resized == [fretboard EXCEPT
                           !.expandedView = expanded,
                           !.fretEnd = IF expanded THEN fretboard.fretStart + 11
                                       ELSE fretboard.fretStart + 3]
           updated == updateFretboard(resized, selectedChord)
       IN  /\ fretboard' = updated.fretboard
           /\ timers' = timers + updated.scheduled
    /\ emitted' = <<>>
    /\ UNCHANGED <<selectedChord, selectedFretboardPositions,
                   identifierVars, explorerVars, noteModelVars>>

\* Every event of the fretboard in a four-fret window: chord clicks, clicks
\* and double-clicks on the first MaxClickString strings, window moves.
NextFretboard ==
    \/ \E k \in 1..14 : OnChordClick(k)
    \/ TimeoutFires
    \/ \E stringNum \in 1..MaxClickString, fret \in 0..(MaxFretStart + 3) :
           OnPositionClick(stringNum, fret)
    \/ \E stringNum \in 1..MaxClickString : OnStringDoubleClick(stringNum)
    \/ MoveUp
    \/ MoveDownWithin

SpecFretboard == Init /\ [][NextFretboard]_vars

\* The fret window over the whole neck: moves, expandedView changes, and
\* double-clicks on the first MaxClickString strings.
NextWindow ==
    \/ MoveUp
    \/ MoveDown
    \/ \E expanded \in BOOLEAN : OnExpandedViewChange(expanded)
    \/ \E stringNum \in 1..MaxClickString : OnStringDoubleClick(stringNum)

SpecWindow == Init /\ [][NextWindow]_vars

\* Chord clicks only, over the four scale kinds; the deferred emission is
\* delivered eventually.
NextChordClicks ==
    \/ \E scaleType \in Range(ScaleTypes) : OnScaleTypeChange(scaleType)
    \/ \E k \in 1..14 : OnChordClick(k)
    \/ TimeoutFires

SpecChordClicks == Init /\ [][NextChordClicks]_vars /\ WF_vars(TimeoutFires)

----------------------------------------------------------------------------
(* Vocabulary of the properties *)

NameSet(notes) == {NoteName(notes[i]) : i \in 1..Len(notes)}

\* The name at chromatic index i (0..11), and the index of a table name.
NameAt(i) == CHROMATIC_SCALE[(i % 12) + 1]

InTable(note) == \E i \in 0..11 : NameAt(i) = NoteName(note)

TableIndex(name) == CHOOSE i \in 0..11 : NameAt(i) = name

NoDuplicates(s) == \A i, j \in 1..Len(s) : i # j => s[i] # s[j]

----------------------------------------------------------------------------
(* C1 *)

TriadNames(r) == {NameAt(r), NameAt(r + 4), NameAt(r + 7)}

\* C1: whenever the selected notes are exactly the pitch classes of the major
\* triad on a root r (in any order and octaves), the first match is the
\* candidate with root r, quality major and confidence 1.0.
C1_MajorTriadRankedFirst ==
    \A r \in 0..11 :
        NameSet(selectedNotes) = TriadNames(r) =>
            /\ Len(chordMatches) >= 1
            /\ NoteName(chordMatches[1].chord.root) = NameAt(r)
            /\ chordMatches[1].chord.quality = "major"
            /\ chordMatches[1].confidence = 60

\* A major triad given third first, with its notes in two different octaves.
C1_Witness ==
    /\ Len(selectedNotes) = 3
    /\ \E r \in 0..11 :
        /\ NameSet(selectedNotes) = TriadNames(r)
        /\ NoteName(selectedNotes[1]) = NameAt(r + 4)
        /\ NoteName(chordMatches[1].chord.root) = NameAt(r)
    /\ selectedNotes[1].octave # selectedNotes[2].octave

----------------------------------------------------------------------------
(* C2 *)

\* C2: whenever identifyChords is called with a note whose spelling is not in
\* the chromatic table, the call raises; it does not return a list of matches.
C2_LookupMissRaises ==
    (\E i \in 1..Len(selectedNotes) : ~InTable(selectedNotes[i])) => outcome = "raised"

----------------------------------------------------------------------------
(* C3 *)

\* The candidates the engine scores for an input: every unique input note as
\* root, with every quality.
Candidates(notes) ==
    {<<root, quality>> : root \in Range(getUniqueNotes(notes)), quality \in Range(QualityOrder)}

CandidateMatch(c, notes) ==
    matchChord(c[1], c[2], CHORD_FORMULAS[c[2]], getUniqueNotes(notes))

\* C3: every candidate with a confidence above 0 is in the returned list; the
\* engine drops only the candidates with confidence 0.
C3_EveryPositiveCandidateReported ==
    \A c \in Candidates(selectedNotes) :
        LET match == CandidateMatch(c, selectedNotes)
        IN  Len(match) = 1 => \E k \in 1..Len(chordMatches) : chordMatches[k] = match[1]

----------------------------------------------------------------------------
(* C4 *)

\* The expected names of a candidate: root index plus each interval, mod 12.
ExpectedNames(root, quality) ==
    {NameAt(TableIndex(NoteName(root)) + CHORD_FORMULAS[quality][k]) :
        k \in 1..Len(CHORD_FORMULAS[quality])}

\* C4: for every reported match, missing = E \ I, extra = I \ E, and the
\* confidence is max(0, |E \cap I| / |E| - 0.15 * |I \ E|); it lies in [0, 1]
\* and is 1.0 exactly when missing and extra are both empty.
C4_ConfidenceFormula ==
    \A k \in 1..Len(chordMatches) :
        LET m == chordMatches[k]
            E == ExpectedNames(m.chord.root, m.chord.quality)
            I == NameSet(selectedNotes)
        IN  /\ NameSet(m.missingNotes) = E \ I
            /\ NameSet(m.extraNotes) = I \ E
            /\ NoDuplicates(m.missingNotes) /\ NoDuplicates(m.extraNotes)
            /\ m.confidence =
                   Max(0, (60 * Cardinality(E \cap I)) \div Cardinality(E)
                              - 9 * Cardinality(I \ E))
            /\ m.confidence >= 0 /\ m.confidence <= 60
            /\ (m.confidence = 60 <=> (m.missingNotes = <<>> /\ m.extraNotes = <<>>))

\* A reported match that has both a missing and an extra note.
C4_Witness ==
    \E k \in 1..Len(chordMatches) :
        /\ chordMatches[k].missingNotes # <<>>
        /\ chordMatches[k].extraNotes # <<>>
        /\ chordMatches[k].confidence < 60

----------------------------------------------------------------------------
(* C5 *)

\* The confidence matchChord computes for candidate c on an input; 0 when it
\* returns null.
CandidateConfidence(c, notes) ==
    LET match == CandidateMatch(c, notes)
    IN  IF Len(match) = 1 THEN match[1].confidence ELSE 0

IsAppendOf(new, old) ==
    Len(new) = Len(old) + 1 /\ SubSeq(new, 1, Len(old)) = old

\* The reported match of candidate c in a result list, as a set of at most one.
ReportedFor(c, matches) ==
    {matches[k] : k \in {j \in 1..Len(matches) :
                            /\ matches[j].chord.root = c[1]
                            /\ matches[j].chord.quality = c[2]}}

\* C5: when one more pitch class is selected that is neither selected already
\* nor a note of the candidate's chord, the candidate's confidence does not
\* increase: it drops by 0.15, but not below 0; a candidate still reported
\* afterwards shows exactly that confidence with the new note among its extras.
C5_ExtraNoteLowersConfidence ==
    [][ IsAppendOf(selectedNotes', selectedNotes) =>
          LET last  == selectedNotes'[Len(selectedNotes')]
              added == NoteName(last)
              S     == NameSet(selectedNotes)
          IN  \A c \in Candidates(selectedNotes) :
                  (added \notin S /\ added \notin ExpectedNames(c[1], c[2]))
                  =>
                  LET before == CandidateConfidence(c, selectedNotes)
                      after  == CandidateConfidence(c, selectedNotes')
                  IN  /\ after = Max(0, before - 9)
                      /\ after <= before
                      /\ \A m1 \in ReportedFor(c, chordMatches) :
                             m1.confidence = before
                      /\ \A m2 \in ReportedFor(c, chordMatches') :
                             /\ m2.confidence = after
                             /\ \E m1 \in ReportedFor(c, chordMatches) :
                                    /\ m2.missingNotes = m1.missingNotes
                                    /\ m2.extraNotes = Append(m1.extraNotes,
                                               [pitch |-> last.pitch,
                                                accidental |-> last.accidental])
      ]_vars

\* A reported match whose only extra note is the note selected last: two of
\* its three chord notes were selected before (confidence 2/3), and the extra
\* note brought it to 2/3 - 0.15.
C5_Witness ==
    /\ Len(selectedNotes) >= 2
    /\ \E k \in 1..Len(chordMatches) :
        /\ Len(chordMatches[k].extraNotes) = 1
        /\ NoteName(chordMatches[k].extraNotes[1]) = NoteName(selectedNotes[Len(selectedNotes)])
        /\ NoteName(selectedNotes[Len(selectedNotes)])
               \notin NameSet(SubSeq(selectedNotes, 1, Len(selectedNotes) - 1))
        /\ chordMatches[k].confidence = 40 - 9

----------------------------------------------------------------------------
(* C6 *)

\* Position of a match's root by first appearance in the input, and of its
\* quality in the table.
RootRank(m) ==
    CHOOSE i \in 1..Len(selectedNotes) :
        /\ NoteName(selectedNotes[i]) = NoteName(m.chord.root)
        /\ \A j \in 1..(i - 1) : NoteName(selectedNotes[j]) # NoteName(m.chord.root)

QualityRank(m) == CHOOSE j \in 1..Len(QualityOrder) : QualityOrder[j] = m.chord.quality

\* C6: the returned list is sorted by confidence, highest first, and matches
\* of equal confidence are in discovery order: by first appearance of the root
\* in the input, then by the quality's place in the table.
C6_SortedWithStableTies ==
    \A k, l \in 1..Len(chordMatches) :
        k < l =>
            /\ chordMatches[k].confidence >= chordMatches[l].confidence
            /\ chordMatches[k].confidence = chordMatches[l].confidence =>
                   \/ RootRank(chordMatches[k]) < RootRank(chordMatches[l])
                   \/ /\ RootRank(chordMatches[k]) = RootRank(chordMatches[l])
                      /\ QualityRank(chordMatches[k]) < QualityRank(chordMatches[l])

\* Two matches of equal confidence on different roots, behind a better match
\* that was discovered after the first of them.
C6_Witness ==
    \E k, l, h \in 1..Len(chordMatches) :
        /\ h < k /\ k < l
        /\ chordMatches[k].confidence = chordMatches[l].confidence
        /\ chordMatches[k].chord.root # chordMatches[l].chord.root
        /\ chordMatches[h].confidence > chordMatches[k].confidence
        /\ RootRank(chordMatches[h]) > RootRank(chordMatches[k])

----------------------------------------------------------------------------
(* C7 *)

\* C7: when the selected pitch classes are exactly the root r and its major
\* third, a match with root r and quality major is reported with a confidence
\* strictly between 0 and 1 and the fifth as its only missing note.
C7_IncompleteTriad ==
    \A r \in 0..11 :
        NameSet(selectedNotes) = {NameAt(r), NameAt(r + 4)} =>
            \E k \in 1..Len(chordMatches) :
                /\ NoteName(chordMatches[k].chord.root) = NameAt(r)
                /\ chordMatches[k].chord.quality = "major"
                /\ chordMatches[k].confidence > 0
                /\ chordMatches[k].confidence < 60
                /\ Len(chordMatches[k].missingNotes) = 1
                /\ NoteName(chordMatches[k].missingNotes[1]) = NameAt(r + 7)

\* C and E selected, the third first.
C7_Witness ==
    /\ Len(selectedNotes) = 2
    /\ NoteName(selectedNotes[1]) = NameAt(4)
    /\ NoteName(selectedNotes[2]) = NameAt(0)
    /\ \E k \in 1..Len(chordMatches) :
        /\ NoteName(chordMatches[k].chord.root) = NameAt(0)
        /\ chordMatches[k].chord.quality = "major"

----------------------------------------------------------------------------
(* C8 *)

\* What a match reports, with its missing and extra notes as sets of names.
ReportOf(m) ==
    [root       |-> NoteName(m.chord.root),
     quality    |-> m.chord.quality,
     confidence |-> m.confidence,
     missing    |-> NameSet(m.missingNotes),
     extra      |-> NameSet(m.extraNotes)]

ReportSet(matches) == {ReportOf(matches[k]) : k \in 1..Len(matches)}

\* The names of the table.
AllNames == {NameAt(i) : i \in 0..11}

\* The table notes whose names are in a set, once each, in table order and
\* without an octave.
RECURSIVE notesOfNames(_, _)
notesOfNames(names, i) ==
    IF i > 11 THEN <<>>
    ELSE (IF NameAt(i) \in names THEN <<indexToNote(i)>> ELSE <<>>)
             \o notesOfNames(names, i + 1)

\* C8: the reported matches are, as a set and in number, those identifyChords
\* reports for the distinct pitch classes of the input alone (each given once,
\* octave dropped, in table order): octaves, repetitions and the order of the
\* input change neither; the empty input yields the empty list.
C8_DependsOnPitchClassSet ==
    /\ LET canonical == identifyChords(notesOfNames(NameSet(selectedNotes), 0))
       IN  /\ ReportSet(chordMatches) = ReportSet(canonical)
           /\ Len(chordMatches) = Len(canonical)
    /\ selectedNotes = <<>> => chordMatches = <<>>
    /\ identifyChords(<<>>) = <<>>

\* The same pitch class selected twice, in two octaves, with a third note, and
\* at least one match reported.
C8_Witness ==
    /\ Len(selectedNotes) = 3
    /\ \E i, j \in 1..3 :
        /\ i < j
        /\ NoteName(selectedNotes[i]) = NoteName(selectedNotes[j])
        /\ selectedNotes[i].octave # selectedNotes[j].octave
    /\ Cardinality(NameSet(selectedNotes)) = 2
    /\ chordMatches # <<>>

----------------------------------------------------------------------------
(* C9 and C10 *)

MajorIntervals == <<0, 2, 4, 5, 7, 9, 11>>

NaturalMinorIntervals == <<0, 2, 3, 5, 7, 8, 10>>

KeyIntervals(scaleType) ==
    IF scaleType = "Major" THEN MajorIntervals ELSE NaturalMinorIntervals

\* The names of the seven scale notes of the key on table index i.
KeyScaleNames(i, scaleType) ==
    {NameAt(i + KeyIntervals(scaleType)[d]) : d \in 1..7}

----------------------------------------------------------------------------
(* C10 *)

UpperNumerals == <<"I", "II", "III", "IV", "V", "VI", "VII">>

LowerNumerals == <<"i", "ii", "iii", "iv", "v", "vi", "vii">>

LowerDegreeNumerals == <<"i°", "ii°", "iii°", "iv°", "v°", "vi°", "vii°">>

\* The numeral of scale-degree position d (1..7) for a chord quality.
NumeralFor(d, quality) ==
    IF quality \in {"minor", "minor7", "half-diminished7"} THEN LowerNumerals[d]
    ELSE IF quality \in {"diminished", "diminished7"} THEN LowerDegreeNumerals[d]
    ELSE UpperNumerals[d]

\* The entries expected for one scale type: the keys on table indices i..11
\* whose scale contains the root, in index order.
RECURSIVE expectedEntries(_, _, _, _)
expectedEntries(rootName, quality, scaleType, i) ==
    IF i > 11 THEN <<>>
    ELSE (IF rootName \in KeyScaleNames(i, scaleType)
          THEN LET d == CHOOSE d \in 1..7 : NameAt(i + KeyIntervals(scaleType)[d]) = rootName
               IN  << [key          |-> indexToNote(i),
                       romanNumeral |-> NumeralFor(d, quality),
                       scaleType    |-> scaleType] >>
          ELSE <<>>)
             \o expectedEntries(rootName, quality, scaleType, i + 1)

expectedKeys ==
    [rootName \in AllNames, quality \in Range(QualityOrder) |->
        expectedEntries(rootName, quality, "Major", 0)
            \o expectedEntries(rootName, quality, "Minor", 0)]

----------------------------------------------------------------------------
(* Vocabulary of the scale properties *)

\* The semitone of a letter above C, and the chromatic index of a spelled
\* note, written out independently of the services' lookups.
LetterSemitone(letter) ==
    CASE letter = <<"C">> -> 0
      [] letter = <<"D">> -> 2
      [] letter = <<"E">> -> 4
      [] letter = <<"F">> -> 5
      [] letter = <<"G">> -> 7
      [] letter = <<"A">> -> 9
      [] letter = <<"B">> -> 11

PitchIndex(note) ==
    (LetterSemitone(note.pitch)
        + (IF note.accidental = <<"#">> THEN 1
           ELSE IF note.accidental = <<"b">> THEN 11 ELSE 0)) % 12

HarmonicMinorIntervals == <<0, 2, 3, 5, 7, 8, 11>>

MelodicMinorIntervals == <<0, 2, 3, 5, 7, 9, 11>>

ScaleIntervals(scaleType) ==
    CASE scaleType = "major"          -> MajorIntervals
      [] scaleType = "natural_minor"  -> NaturalMinorIntervals
      [] scaleType = "harmonic_minor" -> HarmonicMinorIntervals
      [] scaleType = "melodic_minor"  -> MelodicMinorIntervals

----------------------------------------------------------------------------
(* C11: for every valid root and every scale kind the generated scale has   *)
(* exactly 7 octave-less notes, the chromatic index of notes[i] is          *)
(* (index of the root + formula[kind][i]) mod 12, the 7 indices are         *)
(* pairwise distinct and notes[0] has the root's index.                     *)

C11_ScaleFollowsFormula ==
    LET notes     == currentScale.notes
        rootIndex == PitchIndex(currentScale.root)
        intervals == ScaleIntervals(currentScale.type)
    IN  /\ Len(notes) = 7
        /\ \A i \in 1..Len(notes) :
              /\ ~hasOctave(notes[i])
              /\ notes[i].pitch \in VALID_PITCHES
              /\ notes[i].accidental \in VALID_ACCIDENTALS
              /\ PitchIndex(notes[i]) = (rootIndex + intervals[i]) % 12
        /\ \A i, j \in 1..Len(notes) :
              i # j => PitchIndex(notes[i]) # PitchIndex(notes[j])
        /\ PitchIndex(notes[1]) = rootIndex

\* A flat root carrying an octave whose harmonic minor scale wraps past B.
C11_Witness ==
    /\ currentScale.root = createWithOctave(<<"B">>, <<"b">>, 4)
    /\ currentScale.type = "harmonic_minor"
    /\ \E i \in 2..7 : PitchIndex(currentScale.notes[i]) < PitchIndex(currentScale.root)

----------------------------------------------------------------------------
(* C12: the 7 notes of a generated scale use 7 different letters: no letter *)
(* appears twice.                                                           *)

C12_SevenDifferentLetters ==
    \A i, j \in 1..Len(currentScale.notes) :
        i # j => currentScale.notes[i].pitch # currentScale.notes[j].pitch

----------------------------------------------------------------------------
(* C13: the natural minor scale on D is [D, E, F, G, A, Bb, C] in that      *)
(* order, and its triad at degree index 3 (numeral iv) has quality minor    *)
(* and notes [G, A, Bb].                                                    *)

SpelledNames(notes) == [i \in 1..Len(notes) |-> notes[i].pitch \o notes[i].accidental]

C13_DNaturalMinorScenario ==
    (currentScale.root = create(<<"D">>, <<>>) /\ currentScale.type = "natural_minor")
        => /\ SpelledNames(currentScale.notes)
                = << <<"D">>, <<"E">>, <<"F">>, <<"G">>, <<"A">>, <<"B", "b">>, <<"C">> >>
           /\ currentScale.chords[4].romanNumeral = "iv"
           /\ currentScale.chords[4].quality = "minor"
           /\ SpelledNames(currentScale.chords[4].notes)
                = << <<"G">>, <<"A">>, <<"B", "b">> >>

----------------------------------------------------------------------------
(* C14: the scale is spelled with flats exactly when the root's letter plus *)
(* accidental is one of F, Bb, Eb, Ab, Db, Gb, Cb or the root's accidental  *)
(* is flat, and with sharps otherwise; a root carrying an octave gives the  *)
(* same spelled notes as the same root without an octave.                   *)

C14_FlatsFromLetterAndAccidentalOnly ==
    LET root  == currentScale.root
        flats == \/ (root.pitch \o root.accidental) \in Range(FLAT_KEYS)
                 \/ root.accidental = <<"b">>
    IN  /\ \A i \in 1..Len(currentScale.notes) :
              currentScale.notes[i].accidental # (IF flats THEN <<"#">> ELSE <<"b">>)
        /\ currentScale.notes
              = getScale(create(root.pitch, root.accidental), currentScale.type).notes

----------------------------------------------------------------------------
(* C15: every scale has exactly 14 chords, 7 triads followed by 7 seventh   *)
(* chords; the triad at degree i has notes [notes[i], notes[(i+2) mod 7],   *)
(* notes[(i+4) mod 7]], the seventh chord at degree i has notes[(i+6) mod   *)
(* 7] as fourth note in addition, each chord's root is notes[i], and the    *)
(* first note of a chord has the letter and accidental of its root.         *)

TriadQualities == {"major", "minor", "diminished", "augmented"}

SeventhQualities ==
    {"major7", "minor7", "dominant7", "diminished7", "half-diminished7"}

\* The scale note at 0-based index i, wrapped modulo 7.
ScaleNoteAt(i) == currentScale.notes[(i % 7) + 1]

C15_ChordsStackScaleNotes ==
    LET chords == currentScale.chords
    IN  /\ Len(chords) = 14
        /\ \A i \in 0..6 :
              LET triad   == chords[i + 1]
                  seventh == chords[i + 8]
              IN  /\ triad.quality \in TriadQualities
                  /\ triad.notes = <<ScaleNoteAt(i), ScaleNoteAt(i + 2), ScaleNoteAt(i + 4)>>
                  /\ triad.root = ScaleNoteAt(i)
                  /\ seventh.quality \in SeventhQualities
                  /\ seventh.notes = <<ScaleNoteAt(i), ScaleNoteAt(i + 2),
                                       ScaleNoteAt(i + 4), ScaleNoteAt(i + 6)>>
                  /\ seventh.root = ScaleNoteAt(i)
        /\ \A k \in 1..Len(chords) :
              /\ chords[k].notes[1].pitch = chords[k].root.pitch
              /\ chords[k].notes[1].accidental = chords[k].root.accidental

\* A flat-spelled melodic minor scale whose upper degrees wrap around.
C15_Witness ==
    /\ currentScale.root = create(<<"E">>, <<"b">>)
    /\ currentScale.type = "melodic_minor"
    /\ Len(currentScale.chords) = 14
    /\ currentScale.chords[7].notes[2] = currentScale.notes[2]
    /\ currentScale.chords[14].notes[4] = currentScale.notes[6]
    /\ currentScale.notes[2] # currentScale.notes[6]

----------------------------------------------------------------------------
(* C16: each diatonic chord's declared quality is the quality whose         *)
(* interval set equals the semitone offsets of the chord's notes from its   *)
(* root, for all triads of the four scale kinds and all seventh chords of   *)
(* major and natural minor; the only seventh chords whose declared quality  *)
(* differs from their intervals are those at degrees 0 and 2 of harmonic    *)
(* and melodic minor, declared minor7 and major7.                           *)

QualityIntervals(quality) ==
    CASE quality = "major"            -> {0, 4, 7}
      [] quality = "minor"            -> {0, 3, 7}
      [] quality = "diminished"       -> {0, 3, 6}
      [] quality = "augmented"        -> {0, 4, 8}
      [] quality = "major7"           -> {0, 4, 7, 11}
      [] quality = "minor7"           -> {0, 3, 7, 10}
      [] quality = "dominant7"        -> {0, 4, 7, 10}
      [] quality = "diminished7"      -> {0, 3, 6, 9}
      [] quality = "half-diminished7" -> {0, 3, 6, 10}

\* The semitone offsets of a chord's notes from its root.
ChordOffsets(chord) ==
    {(PitchIndex(chord.notes[i]) - PitchIndex(chord.root) + 12) % 12 :
        i \in 1..Len(chord.notes)}

\* The seventh chords at degrees 0 and 2 of harmonic and melodic minor.
IsApproximatedSeventh(scaleType, k) ==
    /\ scaleType \in {"harmonic_minor", "melodic_minor"}
    /\ k \in {8, 10}

C16_QualityMatchesIntervals ==
    \A k \in 1..Len(currentScale.chords) :
        LET chord == currentScale.chords[k]
        IN  IF IsApproximatedSeventh(currentScale.type, k)
            THEN /\ QualityIntervals(chord.quality) # ChordOffsets(chord)
                 /\ chord.quality = (IF k = 8 THEN "minor7" ELSE "major7")
            ELSE QualityIntervals(chord.quality) = ChordOffsets(chord)

\* A harmonic minor scale: its first seventh chord is declared minor7 but
\* has a major seventh, while its fifth one is a true dominant seventh.
C16_Witness ==
    /\ currentScale.type = "harmonic_minor"
    /\ currentScale.root = create(<<"A">>, <<>>)
    /\ currentScale.chords[8].quality = "minor7"
    /\ ChordOffsets(currentScale.chords[8]) = {0, 3, 7, 11}
    /\ currentScale.chords[12].quality = "dominant7"
    /\ ChordOffsets(currentScale.chords[12]) = {0, 4, 7, 10}

----------------------------------------------------------------------------
(* Vocabulary of the position properties *)

\* The chord or scale the last positions call was made for.
RequestTarget ==
    IF request.context = "chord" THEN request.chord[1] ELSE currentScale

----------------------------------------------------------------------------
(* C17: for every chord or scale and every position of the requested        *)
(* window, isInChord is true exactly when the sounded pitch class           *)
(* (chromatic index, octave ignored) is that of one of the chord's or       *)
(* scale's notes, isRoot is true exactly when it is the root's pitch class, *)
(* and isRoot implies isInChord.                                            *)

C17_FlagsByPitchClass ==
    \A k \in 1..Len(positions) :
        LET p      == positions[k]
            target == RequestTarget
        IN  /\ p.isInChord <=>
                  \E i \in 1..Len(target.notes) :
                      PitchIndex(target.notes[i]) = PitchIndex(p.note)
            /\ p.isRoot <=> (PitchIndex(target.root) = PitchIndex(p.note))
            /\ p.isRoot => p.isInChord

----------------------------------------------------------------------------
(* C18: on every string of the standard tuning (E4, B3, G3, D3, A2, E2) the *)
(* note at fret f has pitch-class index (index of the open string + f) mod  *)
(* 12, sharp spelling, and octave open octave + floor((open index + f) /    *)
(* 12), so that 12 * octave + index is exactly f above the open string; the *)
(* note at fret f + 12 has the same pitch class and an octave one greater;  *)
(* the A string at fret 3 is C, one octave above the open A's octave.       *)

\* The open strings as the claim names them: chromatic index and octave.
OpenStrings ==
    << [index |-> 4, octave |-> 4], [index |-> 11, octave |-> 3],
       [index |-> 7, octave |-> 3], [index |-> 2, octave |-> 3],
       [index |-> 9, octave |-> 2], [index |-> 4, octave |-> 2] >>

AbsoluteSemitone(note) == 12 * note.octave + PitchIndex(note)

IsSharpSpelled(note) ==
    /\ note.pitch \in VALID_PITCHES
    /\ \/ note.accidental = <<>>
       \/ note.accidental = <<"#">> /\ note.pitch \notin {<<"E">>, <<"B">>}

C18_NoteAtStringAndFret ==
    \A k \in 1..Len(positions) :
        LET p      == positions[k]
            open   == OpenStrings[p.string]
            higher == getNoteAtFret(STANDARD_TUNING[p.string], p.fret + 12)
        IN  /\ IsSharpSpelled(p.note)
            /\ PitchIndex(p.note) = (open.index + p.fret) % 12
            /\ p.note.octave = open.octave + ((open.index + p.fret) \div 12)
            /\ AbsoluteSemitone(p.note) = 12 * open.octave + open.index + p.fret
            /\ higher.pitch = p.note.pitch
            /\ higher.accidental = p.note.accidental
            /\ higher.octave = p.note.octave + 1
            /\ (p.string = 5 /\ p.fret = 3) =>
                  /\ p.note.pitch = <<"C">>
                  /\ p.note.accidental = <<>>
                  /\ p.note.octave = 3

\* A window that holds the A string's third fret, where the octave steps
\* up, and a sharp on a higher fret.
C18_Witness ==
    /\ request.context = "chord"
    /\ request.fretStart = 2
    /\ \E k \in 1..Len(positions) :
          /\ positions[k].string = 5
          /\ positions[k].fret = 3
          /\ positions[k].note.octave = 3
    /\ \E k \in 1..Len(positions) :
          /\ positions[k].fret = 4
          /\ positions[k].note.accidental = <<"#">>

----------------------------------------------------------------------------
(* C19: in chord context a position has a degree label only if it is a      *)
(* chord member, and then the label follows from the semitone interval      *)
(* (note index - root index) mod 12 through the map 0->1, 2->2, 3->3, 4->3, *)
(* 5->4, 7->5, 9->6, 10->7, 11->7; members at any other interval and all    *)
(* non-members have no label.  In scale context a member's label is its     *)
(* 1-based position (1..7) in the scale's note list.                        *)

\* The label of an interval: <<d>>, or <<>> for an interval without label.
ExpectedLabel(interval) ==
    CASE interval = 0  -> <<1>>
      [] interval = 2  -> <<2>>
      [] interval = 3  -> <<3>>
      [] interval = 4  -> <<3>>
      [] interval = 5  -> <<4>>
      [] interval = 7  -> <<5>>
      [] interval = 9  -> <<6>>
      [] interval = 10 -> <<7>>
      [] interval = 11 -> <<7>>
      [] OTHER         -> <<>>

IntervalFromRoot(note, root) == (PitchIndex(note) - PitchIndex(root) + 12) % 12

SameSpelling(note1, note2) ==
    note1.pitch = note2.pitch /\ note1.accidental = note2.accidental

C19_DegreeLabels ==
    \A k \in 1..Len(positions) :
        LET p == positions[k]
        IN  /\ request.context = "chord" =>
                  p.scaleDegree =
                      IF p.isInChord
                      THEN ExpectedLabel(IntervalFromRoot(p.note, request.chord[1].root))
                      ELSE <<>>
            /\ (request.context = "scale" /\ p.isInChord) =>
                  \E i \in 1..7 :
                      /\ p.scaleDegree = <<i>>
                      /\ SameSpelling(p.note, currentScale.notes[i])
                      /\ \A j \in 1..(i - 1) : ~SameSpelling(p.note, currentScale.notes[j])

\* A diminished chord in chord context: its fifth lies a tritone above the
\* root and is a member without label, its third is labelled 3.
C19_Witness ==
    /\ request.context = "chord"
    /\ request.chord[1].quality = "diminished"
    /\ \E k \in 1..Len(positions) :
          /\ positions[k].isInChord
          /\ IntervalFromRoot(positions[k].note, request.chord[1].root) = 6
          /\ positions[k].scaleDegree = <<>>
    /\ \E k \in 1..Len(positions) :
          /\ positions[k].isInChord
          /\ positions[k].scaleDegree = <<3>>
    /\ \E k \in 1..Len(positions) : ~positions[k].isInChord

----------------------------------------------------------------------------
(* C20: for every chromatic index i in 0..11 and both values of the flat    *)
(* preference, the index of the note spelled for i is i again; without the  *)
(* preference the note is a natural or a sharp, with it a natural or the    *)
(* flat of the next letter (index 1 is C# without flats, Db with flats),    *)
(* never a sharp.                                                           *)

SharpNames ==
    << <<"C">>, <<"C", "#">>, <<"D">>, <<"D", "#">>, <<"E">>, <<"F">>,
       <<"F", "#">>, <<"G">>, <<"G", "#">>, <<"A">>, <<"A", "#">>, <<"B">> >>

FlatNames ==
    << <<"C">>, <<"D", "b">>, <<"D">>, <<"E", "b">>, <<"E">>, <<"F">>,
       <<"G", "b">>, <<"G">>, <<"A", "b">>, <<"A">>, <<"B", "b">>, <<"B">> >>

ExpectedSpelling(i, preferFlats) ==
    IF preferFlats THEN FlatNames[i + 1] ELSE SharpNames[i + 1]

RoundTrips(note, i, preferFlats) ==
    /\ theoryGetNoteIndex(note) = i
    /\ note.pitch \in VALID_PITCHES
    /\ note.pitch \o note.accidental = ExpectedSpelling(i, preferFlats)
    /\ note.accidental # (IF preferFlats THEN <<"#">> ELSE <<"b">>)

C20_IndexSpellingRoundTrip ==
    /\ \A k \in 1..Len(currentScale.notes) :
          RoundTrips(currentScale.notes[k],
                     (PitchIndex(currentScale.root)
                         + ScaleIntervals(currentScale.type)[k]) % 12,
                     shouldUseFlats(currentScale.root))
    /\ \A i \in 0..11, preferFlats \in BOOLEAN :
          RoundTrips(getNoteAtIndex(i, preferFlats), i, preferFlats)

\* A scale spelled with flats that holds Db, the flat spelling of index 1.
C20_Witness ==
    /\ shouldUseFlats(currentScale.root)
    /\ \E k \in 1..Len(currentScale.notes) :
          /\ currentScale.notes[k] = create(<<"D">>, <<"b">>)
          /\ theoryGetNoteIndex(currentScale.notes[k]) = 1

----------------------------------------------------------------------------
(* C21..C24: the note model's parser, constructor and equality *)

\* The decimal digits of a digit string without its leading zeros ("0" for
\* a string of zeros only).
RECURSIVE StripLeadingZeros(_)
StripLeadingZeros(digits) ==
    IF Len(digits) > 1 /\ digits[1] = "0" THEN StripLeadingZeros(Tail(digits))
    ELSE digits

IsLetter(c) == c \in {"A", "B", "C", "D", "E", "F", "G"}

IsSign(c) == c \in {"#", "b"}

IsDigit(c) == c \in {"0", "1", "2", "3", "4", "5", "6", "7", "8", "9"}

\* s is a letter, then at most one sign, then digits only.
IsPitchString(s) ==
    /\ Len(s) >= 1
    /\ IsLetter(s[1])
    /\ \A i \in 2..Len(s) : IsDigit(s[i]) \/ (i = 2 /\ IsSign(s[i]))

\* The canonical form of an accepted string: its letter and sign as
\* written, its octave digits without leading zeros.
CanonicalForm(s) ==
    LET signLen == IF Len(s) >= 2 /\ IsSign(s[2]) THEN 1 ELSE 0
        digits == SubSeq(s, 2 + signLen, Len(s))
    IN  SubSeq(s, 1, 1 + signLen) \o (IF digits = <<>> THEN <<>> ELSE StripLeadingZeros(digits))

\* C21: for every string the parser accepts, noteToString of the parsed
\* note is the string in canonical form (same letter and accidental, the
\* octave without leading zeros, none when none was given), and parsing
\* that canonical form again returns an equal note.
C21_ParsePrintRoundTrip ==
    (modelCall.op = "fromString" /\ modelResult.outcome = "returned") =>
        LET note == modelResult.note[1]
            printed == noteToString(note)
        IN  /\ printed = CanonicalForm(modelCall.noteString)
            /\ fromString(printed).outcome = "returned"
            /\ fromString(printed).note = <<note>>

\* A sharp with an octave written with a leading zero has been parsed.
C21_Witness ==
    /\ modelCall.op = "fromString"
    /\ modelCall.noteString = <<"C", "#", "0", "8">>
    /\ modelResult.outcome = "returned"
    /\ noteToString(modelResult.note[1]) = <<"C", "#", "8">>

\* C22: fromString raises exactly for the strings that are not a letter
\* A-G, an optional # or b and digits; create raises exactly when the pitch
\* is not one of the seven single letters (a combined pitch such as C#
\* included) or the accidental is not '', '#' or 'b'; every note either
\* returns has a single-letter pitch.
C22_MalformedInputRaises ==
    /\ modelCall.op = "fromString" /\ modelResult.outcome # "none" =>
           (modelResult.outcome = "raised" <=> ~IsPitchString(modelCall.noteString))
    /\ modelCall.op = "create" /\ modelResult.outcome # "none" =>
           (modelResult.outcome = "raised" <=>
                \/ ~(Len(modelCall.pitch) = 1 /\ IsLetter(modelCall.pitch[1]))
                \/ ~(modelCall.accidental = <<>>
                        \/ (Len(modelCall.accidental) = 1 /\ IsSign(modelCall.accidental[1]))))
    /\ modelCall.op \in {"fromString", "create"} /\ modelResult.outcome = "returned" =>
           /\ Len(modelResult.note[1].pitch) = 1
           /\ IsLetter(modelResult.note[1].pitch[1])

\* create was called with the combined pitch C# and raised.
C22_Witness ==
    /\ modelCall.op = "create"
    /\ modelCall.pitch = <<"C", "#">>
    /\ modelCall.accidental = <<>>
    /\ modelResult.outcome = "raised"

\* fromString was called with a string that starts with H and raised.
C22_WitnessParser ==
    /\ modelCall.op = "fromString"
    /\ modelCall.noteString = <<"H", "#", "1">>
    /\ modelResult.outcome = "raised"

\* C23: a pitch string or a create call whose octave lies outside 0..8
\* raises; every note the parser or the validating constructor returns has
\* no octave or one in 0..8, and so satisfies NoteFactory.isValid.
C23_OctaveInRange ==
    (modelCall.op \in {"fromString", "create"} /\ modelResult.outcome = "returned") =>
        /\ hasOctave(modelResult.note[1]) =>
               (0 <= modelResult.note[1].octave /\ modelResult.note[1].octave <= 8)
        /\ isValid(modelResult.note[1])

\* The letter and the sign a note stands for, a legacy combined pitch such
\* as C# counting as the letter C with a sharp.
LetterOf(note) == note.pitch[1]

SignOf(note) == IF Len(note.pitch) = 2 THEN <<note.pitch[2]>> ELSE note.accidental

SameLetterAndSign(a, b) == LetterOf(a) = LetterOf(b) /\ SignOf(a) = SignOf(b)

SameOctave(a, b) ==
    IF hasOctave(a) /\ hasOctave(b) THEN a.octave = b.octave
    ELSE ~hasOctave(a) /\ ~hasOctave(b)

\* C24: in pitch-class mode notesEqual holds exactly for notes of the same
\* letter and the same accidental, whatever their octaves and never for
\* enharmonic spellings; absolute mode also requires equal octaves; both
\* modes are reflexive, symmetric and transitive, and absolute equality
\* implies pitch-class equality.
C24_EqualityOfNotes ==
    (modelCall.op = "notesEqual" /\ modelResult.outcome = "returned") =>
        LET a == modelCall.note1
            b == modelCall.note2
            mode == modelCall.ignoreOctave
        IN  /\ modelResult.value =
                   (SameLetterAndSign(a, b) /\ (mode \/ SameOctave(a, b)))
            /\ modelNotesEqual(a, a, mode) /\ modelNotesEqual(b, b, mode)
            /\ modelNotesEqual(b, a, mode) = modelResult.value
            /\ \A c \in ComparedNotes :
                   (modelResult.value /\ modelNotesEqual(b, c, mode))
                       => modelNotesEqual(a, c, mode)
            /\ modelNotesEqual(a, b, FALSE) => modelNotesEqual(a, b, TRUE)

\* A legacy C#3 was compared with a separated C#4 in pitch-class mode and
\* found equal.
C24_Witness ==
    /\ modelCall.op = "notesEqual"
    /\ modelCall.note1 = [pitch |-> <<"C", "#">>, accidental |-> <<>>, octave |-> 3]
    /\ modelCall.note2 = [pitch |-> <<"C">>, accidental |-> <<"#">>, octave |-> 4]
    /\ modelCall.ignoreOctave
    /\ modelResult.outcome = "returned"
    /\ modelResult.value

----------------------------------------------------------------------------
(* C27: the scale generator and the chord identifier agree *)

\* The chords of the current scale whose notes were handed to
\* identifyChords last.
IdentifiedChords ==
    {k \in 1..Len(currentScale.chords) : selectedNotes = currentScale.chords[k].notes}

\* C27: for each of the 12 roots offered and each of major and natural
\* minor, identifyChords on the notes of any of the 14 diatonic chords of
\* the scale returns a match with that chord's root and quality and
\* confidence 1.0 (60 sixtieths).
C27_DiatonicChordsIdentified ==
    (outcome = "returned" /\ currentScale.type \in {"major", "natural_minor"}) =>
        \A k \in IdentifiedChords :
            \E i \in 1..Len(chordMatches) :
                /\ chordMatches[i].chord.root = currentScale.chords[k].root
                /\ chordMatches[i].chord.quality = currentScale.chords[k].quality
                /\ chordMatches[i].confidence = 60

----------------------------------------------------------------------------
(* C25, C26, C28, C29, C30: the fretboard's selection and window *)

\* The key of every string and fret, written out character by character,
\* and the string and fret each key stands for.
KeyOf ==
    [cell \in (1..6) \X (0..35) |->
        <<Digits[cell[1] + 1], "-">>
            \o (IF cell[2] < 10 THEN <<Digits[cell[2] + 1]>>
                ELSE <<Digits[(cell[2] \div 10) + 1], Digits[(cell[2] % 10) + 1]>>)]

AllKeys == {KeyOf[cell] : cell \in DOMAIN KeyOf}

CellOfKey == [posKey \in AllKeys |-> CHOOSE cell \in DOMAIN KeyOf : KeyOf[cell] = posKey]

\* Every key is the key of some string and fret.
KeysWellFormed == fretboard.selectedPositionsSet \subseteq AllKeys

\* The frets selected on a string.
FretsOn(stringNum) ==
    {CellOfKey[posKey][2] :
        posKey \in {k \in fretboard.selectedPositionsSet \cap AllKeys :
                        CellOfKey[k][1] = stringNum}}

OneFretPerString ==
    /\ KeysWellFormed
    /\ \A stringNum \in 1..6 : Cardinality(FretsOn(stringNum)) <= 1

\* C25: after any sequence of chord loads, clicks, double-clicks and
\* window moves the selection holds at most one fret per string, and a
\* click on a fret leaves that fret as the string's only selection and the
\* string unmuted.
C25_OneFretPerString ==
    [][/\ OneFretPerString'
       /\ \A stringNum \in 1..MaxClickString, fret \in 0..(MaxFretStart + 3) :
              OnPositionClick(stringNum, fret) =>
                  /\ FretsOn(stringNum)' = {fret}
                  /\ stringNum \notin fretboard'.mutedStrings]_vars

\* With the chord C loaded, whose first tone on string 1 is the open
\* string, a click has moved the selection of string 1 to fret 3.
C25_Witness ==
    /\ fretboard.previousChordName = << <<"C">> >>
    /\ FretsOn(1) = {3}
    /\ Cardinality(fretboard.selectedPositionsSet) = 6
    /\ emitted # <<>>

\* C26: every selectionChange emission holds only positions on strings
\* that are not muted when it is emitted.
C26_EmittedOnlyUnmuted ==
    emitted # <<>> =>
        \A position \in emitted[1] : position.string \notin fretboard.mutedStrings

\* An emission made while string 1 is muted and keeps its selection: the
\* other five strings' positions are emitted.
C26_Witness ==
    /\ emitted # <<>>
    /\ 1 \in fretboard.mutedStrings
    /\ FretsOn(1) # {}
    /\ Cardinality(emitted[1]) = 5

\* C28: after any sequence of moveUp, moveDown and expandedView changes
\* the window satisfies 0 <= fretStart <= fretEnd <= 24.
C28_WindowOnTheNeck ==
    /\ 0 <= fretboard.fretStart
    /\ fretboard.fretStart <= fretboard.fretEnd
    /\ fretboard.fretEnd <= 24

\* C29: after any sequence of fretboard events, chord loads with
\* auto-select in any window included, every string that is not muted has
\* exactly one selected fret.
C29_UnmutedStringsSelected ==
    \A stringNum \in (1..6) \ fretboard.mutedStrings :
        Cardinality(FretsOn(stringNum)) = 1

\* The (string, fret) pairs the parent holds, and those the fretboard
\* holds as selected on strings that are not muted.
ParentSelection == {<<position.string, position.fret>> : position \in selectedFretboardPositions}

HeldSelection ==
    {CellOfKey[posKey] :
        posKey \in {k \in fretboard.selectedPositionsSet \cap AllKeys :
                        CellOfKey[k][1] \notin fretboard.mutedStrings}}

\* A chord click has cleared the parent's positions and nothing was
\* emitted since.
ChordClicked ==
    selectedChord # <<>> /\ selectedFretboardPositions = {} /\ emitted = <<>>

\* C30: a chord click is followed by a state in which no deferred emission
\* is pending and the parent's positions are those the fretboard holds as
\* selected on unmuted strings; for every sequence of chord clicks, a click
\* on a chord named like the loaded one included.
C30_ParentFollowsFretboard ==
    ChordClicked ~> (timers = 0 /\ ParentSelection = HeldSelection)

====
